---- MODULE Spec2Model ----
(***************************************************************************)
(* A state-machine model of the beat detector's real-time communication   *)
(* and lifecycle layer (src/modules/beat/detector/impl.cpp, src/src/      *)
(* main.cpp):                                                              *)
(*   - the SPSC event ring buffer written by the real-time process         *)
(*     callback and drained by the main-loop event source, one action per  *)
(*     atomic load/store and per slot access;                              *)
(*   - the shutdown flags, the quit monitor thread, stop(), the signal     *)
(*     handler, the stream state_changed/destroy callbacks and main();     *)
(*   - the real-time process callback: buffer lease, layout validation,    *)
(*     block analysis, run totals and the BPM rolling buffer;              *)
(*   - the command line: detail::parseU32 and beat_detector::parseArgs.    *)
(***************************************************************************)
EXTENDS Integers, Sequences, FiniteSets, TLC

VARIABLES
    \* ---- DetectorState: the event ring buffer (impl.cpp:117-121)
    events,            \* std::array<Event, kEventCap>; an Event is modelled by its push number
    ev_head,           \* std::atomic<size_t> write index (real-time thread)
    ev_tail,           \* std::atomic<size_t> read index (main loop)
    event_src,         \* spa_source* event_src: FALSE is nullptr
    wake,              \* the event source has been signalled and not yet dispatched
    \* ---- the real-time process callback's position and locals (impl.cpp:466-497)
    ppc, p_head, p_tail,
    writing,           \* the slot whose (non-atomic) assignment is in progress, or -1
    \* ---- the drain handler's position and locals (impl.cpp:579-589)
    cpc, c_tail, c_head,
    \* ---- history of the queue
    npush,             \* pushes begun so far; the push in progress carries this number
    delivered,         \* the events copied out by the drain handler, in order
    evicted,           \* the events the producer dropped when it found the buffer full
    psteps,            \* steps the producer has taken in the push in progress
    \* ---- DetectorState: shutdown and lifecycle (impl.cpp:68-69, 124-138)
    quit,              \* inline static std::atomic_bool quit
    stopping,          \* std::atomic_bool stopping
    instance,          \* DetectorState::instance # nullptr
    main_loop,         \* "null" or "created"
    stream,            \* "null" or "owned"
    stop_requested,    \* the quit monitor's std::stop_token
    monitor_pc,        \* "none", "polling", "done"
    main_pc,           \* position of main(): see MainPCs
    \* ---- the transport (PipeWire) as seen through the calls the code makes
    stream_state,      \* pw_stream_state last reported to state_changed
    active,            \* FALSE once pw_stream_set_active(stream, false) was called
    loop_quit,         \* pw_main_loop_quit has been requested and not yet acted on
    \* ---- history of the lifecycle
    disconnect_calls,  \* calls of pw_stream_disconnect
    deactivate_calls,  \* calls of pw_stream_set_active(stream, false)
    stop_calls,        \* calls of BeatDetector::stop
    signalled,         \* the signal handler ran while a detector instance existed
    last_op,           \* the operation that made the latest step
    \* ---- main() (main.cpp:150-200)
    argv,              \* the arguments, args[0] included; an argument is a sequence of characters
    parsed,            \* the result of parseArgs(args), or NotParsed
    exit_code,         \* the value main() returns, or NoExit while it has not returned
    \* ---- history of initialize() and of the stream object (impl.cpp:277-634)
    init_steps,        \* the steps initialize() has attempted, in order
    init_error,        \* the message of the error initialize() returned, or NoError
    stream_destroys,   \* calls of pw_stream_destroy on the stream object
    \* ---- DetectorState: the processing times the final statistics read (impl.cpp:87)
    processing_times_ms,  \* std::vector<double>
    \* ---- DetectorState: run totals and the BPM rolling buffer (impl.cpp:88-90, 129-135)
    total_beats, total_onsets,
    last_bpm,
    bpm,               \* BPMBuffer: [values, count, head]
    \* ---- the process callback's position and locals (impl.cpp:385-517)
    rt_pc,             \* "idle", "leased", "block", "push", "release"
    lease,             \* <<>>, or <<[stream, buffer]>>: the BufferLease of the invocation
    blocks_left,       \* blocks of the view not analysed yet
    \* ---- history of the process callback
    rt_calls,          \* invocations of the callback
    rt_path,           \* the path the latest invocation has taken
    dequeues,          \* buffers pw_stream_dequeue_buffer has handed out
    requeues,          \* calls of pw_stream_queue_buffer
    rejections,        \* the reasons printed by "SPA buffer rejected", in order
    blocks_log,        \* every analysed block, in order: invocation, offset, length, results
    payload,           \* the Event constructed for push number n, for every n
    bpm_hist,          \* the values recorded into the BPM buffer, in order
    \* ---- the drain handler's copy of the slot and its output (impl.cpp:586-628)
    c_event,           \* const auto event = state->events[tail]
    shown,             \* what the handler printed for each beat: the BPM and, on the bar, the average
    log_lines          \* the records the handler wrote to the log file, in order

qvars == <<events, ev_head, ev_tail, wake, ppc, p_head, p_tail, writing,
           cpc, c_tail, c_head, npush, delivered, evicted, psteps>>

lvars == <<quit, stopping, instance, main_loop, stream, stop_requested, monitor_pc,
           main_pc, stream_state, active, loop_quit, event_src,
           disconnect_calls, deactivate_calls, stop_calls, signalled, last_op>>

mvars == <<argv, parsed, exit_code, init_steps, init_error, stream_destroys,
           processing_times_ms>>

rvars == <<total_beats, total_onsets, last_bpm, bpm, rt_pc, lease, blocks_left,
           rt_calls, rt_path, dequeues, requeues, rejections, blocks_log, payload,
           bpm_hist>>

cvars == <<c_event, shown, log_lines>>

vars == <<qvars, lvars, mvars, rvars, cvars>>

(***************************************************************************)
(* Bounds of the model.                                                    *)
(***************************************************************************)
\* DetectorState::kEventCap is 1024 (impl.cpp:117); the model runs the same code
\* on a ring of this many slots.
kEventCap == 3

\* Pushes the producer begins in the concurrent specification.
MaxPush == 5

\* Pushes of the push-then-drain specification: enough to overflow the ring.
MaxPushSeq == kEventCap + 2

\* Calls of stop() the client makes.
MaxStops == 2

\* Values recorded into the BPM buffer by the specification of the buffer:
\* one more than its capacity.
MaxRecords == 11

\* Invocations of the process callback.
MaxCalls == 2

Slots == 0 .. (kEventCap - 1)

\* The value a racing, torn copy of a slot may yield.
Torn == -1

ProducerPCs == {"load_head", "load_tail", "check_full", "write_begin", "write_end",
                "store_head", "signal"}

Range(s) == {s[i] : i \in DOMAIN s}

(***************************************************************************)
(* The real-time producer: the push of impl.cpp:466-497, one action per    *)
(* atomic operation.                                                       *)
(***************************************************************************)
\* const auto head = ev_head.load(relaxed)
P_LoadHead ==
    /\ ppc = "idle"
    /\ p_head' = ev_head
    /\ npush' = npush + 1
    /\ psteps' = 1
    /\ ppc' = "load_tail"
    /\ UNCHANGED <<events, ev_head, ev_tail, wake, p_tail, writing,
                   cpc, c_tail, c_head, delivered, evicted>>
    /\ UNCHANGED <<lvars, mvars, rvars, cvars>>

\* const auto tail = ev_tail.load(acquire)
P_LoadTail ==
    /\ ppc = "load_tail"
    /\ p_tail' = ev_tail
    /\ psteps' = psteps + 1
    /\ ppc' = "check_full"
    /\ UNCHANGED <<events, ev_head, ev_tail, wake, p_head, writing,
                   cpc, c_tail, c_head, npush, delivered, evicted>>
    /\ UNCHANGED <<lvars, mvars, rvars, cvars>>

\* A faulty full test: it compares the write index itself with the read index.
IsFull_EmptyTest(head, tail) == head = tail

\* next_head == tail
IsFull(head, tail) == (head + 1) % kEventCap = tail

\* A faulty push that waits for the consumer to free a slot instead of dropping.
P_DropOldest_Blocking ==
    /\ ppc = "check_full"
    /\ ~IsFull(p_head, ev_tail)
    /\ psteps' = psteps + 1
    /\ ppc' = "write_begin"
    /\ UNCHANGED <<events, ev_head, ev_tail, wake, p_head, p_tail, writing,
                   cpc, c_tail, c_head, npush, delivered, evicted>>
    /\ UNCHANGED <<lvars, mvars, rvars, cvars>>

\* A faulty push that overwrites without advancing the read index.
P_DropOldest_NoDrop ==
    /\ ppc = "check_full"
    /\ psteps' = psteps + 1
    /\ ppc' = "write_begin"
    /\ UNCHANGED <<events, ev_head, ev_tail, wake, p_head, p_tail, writing,
                   cpc, c_tail, c_head, npush, delivered, evicted>>
    /\ UNCHANGED <<lvars, mvars, rvars, cvars>>

\* if (next_head == tail) ev_tail.store((tail + 1) % kEventCap, release)
P_DropOldest ==
    /\ ppc = "check_full"
    /\ IF IsFull(p_head, p_tail)
         THEN /\ ev_tail' = (p_tail + 1) % kEventCap
              /\ evicted' = evicted \cup {events[p_tail]}
         ELSE UNCHANGED <<ev_tail, evicted>>
    /\ psteps' = psteps + 1
    /\ ppc' = "write_begin"
    /\ UNCHANGED <<events, ev_head, wake, p_head, p_tail, writing,
                   cpc, c_tail, c_head, npush, delivered>>
    /\ UNCHANGED <<lvars, mvars, rvars, cvars>>

\* events[head] = Event{...}: a plain (non-atomic) assignment of the whole struct,
\* which begins ...
P_WriteBegin ==
    /\ ppc = "write_begin"
    /\ writing' = p_head
    /\ psteps' = psteps + 1
    /\ ppc' = "write_end"
    /\ UNCHANGED <<events, ev_head, ev_tail, wake, p_head, p_tail,
                   cpc, c_tail, c_head, npush, delivered, evicted>>
    /\ UNCHANGED <<lvars, mvars, rvars, cvars>>

\* ... and ends
P_WriteEnd ==
    /\ ppc = "write_end"
    /\ events' = [events EXCEPT ![p_head] = npush]
    /\ writing' = -1
    /\ psteps' = psteps + 1
    /\ ppc' = "store_head"
    /\ UNCHANGED <<ev_head, ev_tail, wake, p_head, p_tail,
                   cpc, c_tail, c_head, npush, delivered, evicted>>
    /\ UNCHANGED <<lvars, mvars, rvars, cvars>>

\* ev_head.store(next_head, release)
P_StoreHead ==
    /\ ppc = "store_head"
    /\ ev_head' = (p_head + 1) % kEventCap
    /\ psteps' = psteps + 1
    /\ ppc' = "signal"
    /\ UNCHANGED <<events, ev_tail, wake, p_head, p_tail, writing,
                   cpc, c_tail, c_head, npush, delivered, evicted>>
    /\ UNCHANGED <<lvars, mvars, rvars, cvars>>

\* if (event_src != nullptr) pw_loop_signal_event(main_loop, event_src)
P_Signal ==
    /\ ppc = "signal"
    /\ wake' = (wake \/ event_src)
    /\ psteps' = 0
    /\ ppc' = "idle"
    /\ UNCHANGED <<events, ev_head, ev_tail, p_head, p_tail, writing,
                   cpc, c_tail, c_head, npush, delivered, evicted>>
    /\ UNCHANGED <<lvars, mvars, rvars, cvars>>

\* The steps of a push after its first.
ProducerRest ==
    \/ P_LoadTail
    \/ P_DropOldest
    \/ P_WriteBegin
    \/ P_WriteEnd
    \/ P_StoreHead
    \/ P_Signal

ProducerNext == P_LoadHead \/ ProducerRest

\* The number of the newest event whose head value has been stored.
Published == IF ppc \in {"idle", "signal"} THEN npush ELSE npush - 1

(***************************************************************************)
(* The BPM rolling buffer (impl.cpp:92, 129-135) and averageBpm.  BPM      *)
(* values are integers; the average is the pair <<total, count>> that      *)
(* stands for the quotient total / count.                                  *)
(***************************************************************************)
kBPMCapacity == 10

Min(a, b) == IF a < b THEN a ELSE b

\* BPMBuffer bpm {}
BpmEmpty ==
    [values |-> [i \in 0 .. (kBPMCapacity - 1) |-> 0], count |-> 0, head |-> 0]

\* A faulty record that advances head without wrapping it.
BpmRecorded_HeadUnwrapped(b, bpm_now) ==
    [values |-> [b.values EXCEPT ![b.head % kBPMCapacity] = bpm_now],
     head |-> b.head + 1,
     count |-> Min(b.count + 1, kBPMCapacity)]

\* A faulty record that lets count grow past the capacity.
BpmRecorded_CountUnbounded(b, bpm_now) ==
    [values |-> [b.values EXCEPT ![b.head] = bpm_now],
     head |-> (b.head + 1) % kBPMCapacity,
     count |-> b.count + 1]

\* bpm_buffer.values[head] = bpm_now; head = (head + 1) % kBPMCapacity;
\* count = std::min(count + 1, kBPMCapacity)
BpmRecorded(b, bpm_now) ==
    [values |-> [b.values EXCEPT ![b.head] = bpm_now],
     head |-> (b.head + 1) % kBPMCapacity,
     count |-> Min(b.count + 1, kBPMCapacity)]

\* first_index = (head + capacity - count) % capacity
BpmFirstIndex(b) == ((b.head + kBPMCapacity) - b.count) % kBPMCapacity

\* std::accumulate over values[(first_index + index) % capacity], index < n
RECURSIVE BpmTotal(_, _)
BpmTotal(b, n) ==
    IF n = 0 THEN 0
    ELSE BpmTotal(b, n - 1) + b.values[(BpmFirstIndex(b) + (n - 1)) % kBPMCapacity]

\* averageBpm: 0 when nothing was recorded, else total_bpm / count
averageBpm(b) ==
    IF b.count = 0 THEN <<0, 1>> ELSE <<BpmTotal(b, b.count), b.count>>

\* The values recorded into the buffer on its own.
BpmValues == {60, 90, 120}

(***************************************************************************)
(* The consumer: the event source's handler of impl.cpp:572-630, run by    *)
(* the main loop each time the source was signalled.                       *)
(***************************************************************************)
\* the loop dispatches the signalled source to the handler
C_Wake ==
    /\ cpc = "idle"
    /\ wake
    /\ main_pc = "running"
    /\ wake' = FALSE
    /\ cpc' = "load_tail"
    /\ UNCHANGED <<events, ev_head, ev_tail, ppc, p_head, p_tail, writing,
                   c_tail, c_head, npush, delivered, evicted, psteps>>
    /\ UNCHANGED <<lvars, mvars, rvars, cvars>>

\* const auto tail = ev_tail.load(acquire)
C_LoadTail ==
    /\ cpc = "load_tail"
    /\ c_tail' = ev_tail
    /\ cpc' = "load_head"
    /\ UNCHANGED <<events, ev_head, ev_tail, wake, ppc, p_head, p_tail, writing,
                   c_head, npush, delivered, evicted, psteps>>
    /\ UNCHANGED <<lvars, mvars, rvars, cvars>>

\* const auto head = ev_head.load(acquire); if (tail == head) break
C_LoadHead ==
    /\ cpc = "load_head"
    /\ c_head' = ev_head
    /\ cpc' = IF c_tail = ev_head THEN "idle" ELSE "read"
    /\ UNCHANGED <<events, ev_head, ev_tail, wake, ppc, p_head, p_tail, writing,
                   c_tail, npush, delivered, evicted, psteps>>
    /\ UNCHANGED <<lvars, mvars, rvars, cvars>>

\* What a copy of slot i can yield: the slot's value, or, when the producer's
\* assignment of that slot is in progress (a data race on a plain object), the
\* old value, the new one or a torn mixture.
SlotCopies(i) ==
    IF writing = i THEN {events[i], npush, Torn} ELSE {events[i]}

\* DetectorState::log_enabled and visual_enabled, as the constructor got them
\* from main(); initialize() fails unless the log file of an enabled log is open
log_enabled == parsed.options.logging
visual_enabled == parsed.options.visual

\* Event {}: the members of a slot the callback has never assigned
DefaultEvent ==
    [is_beat |-> FALSE, is_onset |-> FALSE, bpm |-> 0, pitch_hz |-> 0, process_ms |-> 0]

\* The Event that push number n stored.  The specifications of the queue alone
\* push events without members: theirs read as Event {}.
EventOf(n) == IF n \in DOMAIN payload THEN payload[n] ELSE DefaultEvent

\* The mixtures of two Events a racing copy may yield: every member comes from
\* the one or from the other.
TornEvents(old, new) ==
    [is_beat : {old.is_beat, new.is_beat}, is_onset : {old.is_onset, new.is_onset},
     bpm : {old.bpm, new.bpm}, pitch_hz : {old.pitch_hz, new.pitch_hz},
     process_ms : {old.process_ms, new.process_ms}]

\* The members of the copy e of slot i.
EventCopies(e, i) ==
    IF e = Torn THEN TornEvents(EventOf(events[i]), EventOf(npush)) ELSE {EventOf(e)}

\* const auto event = events[tail]
C_Read ==
    /\ cpc = "read"
    /\ \E e \in SlotCopies(c_tail) :
         /\ delivered' = Append(delivered, e)
         /\ \E event \in EventCopies(e, c_tail) : c_event' = event
    /\ cpc' = "store_tail"
    /\ UNCHANGED <<events, ev_head, ev_tail, wake, ppc, p_head, p_tail, writing,
                   c_tail, c_head, npush, evicted, psteps>>
    /\ UNCHANGED <<shown, log_lines>>
    /\ UNCHANGED <<lvars, mvars, rvars>>

\* ev_tail.store((tail + 1) % kEventCap, release)
C_StoreTail ==
    /\ cpc = "store_tail"
    /\ ev_tail' = (c_tail + 1) % kEventCap
    /\ cpc' = "report"
    /\ UNCHANGED <<events, ev_head, wake, ppc, p_head, p_tail, writing,
                   c_tail, c_head, npush, delivered, evicted, psteps>>
    /\ UNCHANGED <<lvars, mvars, rvars, cvars>>

\* A faulty log line that gives the BPM of an onset too.
LogRecord_AlwaysBpm(event) ==
    [bpm |-> event.bpm,
     onset |-> IF event.is_onset THEN 1 ELSE 0,
     pitch |-> event.pitch_hz]

\* "{:.1f},{},{:.3f}," of the log line: the BPM, the onset flag and the pitch
LogRecord(event) ==
    [bpm |-> IF event.is_beat THEN event.bpm ELSE 0,
     onset |-> IF event.is_onset THEN 1 ELSE 0,
     pitch |-> event.pitch_hz]

\* The rest of the iteration (impl.cpp:591-628): a beat is printed, on the bar
\* with the average of the BPM buffer, and a beat or onset is written to the
\* log; then the for (;;) loop repeats.
C_Report ==
    /\ cpc = "report"
    /\ shown' = IF c_event.is_beat
                  THEN Append(shown, IF visual_enabled
                                       THEN <<c_event.bpm, averageBpm(bpm)>>
                                       ELSE <<c_event.bpm>>)
                  ELSE shown
    /\ log_lines' = IF log_enabled /\ (c_event.is_beat \/ c_event.is_onset)
                      THEN Append(log_lines, LogRecord(c_event))
                      ELSE log_lines
    /\ cpc' = "load_tail"
    /\ UNCHANGED c_event
    /\ UNCHANGED <<events, ev_head, ev_tail, wake, ppc, p_head, p_tail, writing,
                   c_tail, c_head, npush, delivered, evicted, psteps>>
    /\ UNCHANGED <<lvars, mvars, rvars>>

ConsumerNext ==
    \/ C_Wake
    \/ C_LoadTail
    \/ C_LoadHead
    \/ C_Read
    \/ C_StoreTail
    \/ C_Report

\* The queue as DetectorState's member initialisers leave it (impl.cpp:118-121).
QueueInit ==
    /\ events = [i \in Slots |-> 0]
    /\ ev_head = 0
    /\ ev_tail = 0
    /\ wake = FALSE
    /\ ppc = "idle" /\ p_head = 0 /\ p_tail = 0 /\ writing = -1
    /\ cpc = "idle" /\ c_tail = 0 /\ c_head = 0
    /\ npush = 0 /\ delivered = <<>> /\ evicted = {} /\ psteps = 0
    /\ c_event = DefaultEvent /\ shown = <<>> /\ log_lines = <<>>

(***************************************************************************)
(* The state after construction, and the beat record on its own.           *)
(***************************************************************************)
\* The state of the process callback and of the totals after construction.
RtInit ==
    /\ total_beats = 0 /\ total_onsets = 0 /\ last_bpm = 0
    /\ bpm = BpmEmpty
    /\ rt_pc = "idle" /\ lease = <<>> /\ blocks_left = 0
    /\ rt_calls = 0 /\ rt_path = "none" /\ dequeues = 0 /\ requeues = 0
    /\ rejections = <<>> /\ blocks_log = <<>> /\ payload = <<>> /\ bpm_hist = <<>>

\* The is_beat branch of the block analysis (impl.cpp:444-459) without the
\* event it produces: the total, last_bpm and the record into the BPM buffer.
RT_BeatRecord ==
    /\ total_beats < MaxRecords
    /\ \E bpm_now \in BpmValues :
         /\ last_bpm' = bpm_now
         /\ bpm' = BpmRecorded(bpm, bpm_now)
         /\ bpm_hist' = Append(bpm_hist, bpm_now)
    /\ total_beats' = total_beats + 1
    /\ UNCHANGED <<total_onsets, rt_pc, lease, blocks_left, rt_calls, rt_path,
                   dequeues, requeues, rejections, blocks_log, payload>>
    /\ UNCHANGED <<qvars, lvars, mvars, cvars>>

(***************************************************************************)
(* The command line: detail::parseU32 and beat_detector::parseArgs of      *)
(* src/src/main.cpp.  An argument is a sequence of characters.  A          *)
(* std::uint32_t is a pair <<hi, lo>> that stands for hi * Limb + lo,      *)
(* because the values of the type exceed the integers of the model         *)
(* checker; its arithmetic is modulo 2^32 as in the source.                *)
(***************************************************************************)
DigitChars == <<"0", "1", "2", "3", "4", "5", "6", "7", "8", "9">>

\* std::isdigit(unsigned_char_value) != 0
IsDigit(c) == \E i \in DOMAIN DigitChars : DigitChars[i] = c

\* unsigned_char_value - '0'
DigitValue(c) == (CHOOSE i \in DOMAIN DigitChars : DigitChars[i] = c) - 1

Limb == 100000

\* std::numeric_limits<std::uint32_t>::max() = 4294967295, and 2^32
U32Max == <<42949, 67295>>
TwoTo32 == <<42949, 67296>>

U32OfInt(n) == <<n \div Limb, n % Limb>>
IntOfU32(a) == (a[1] * Limb) + a[2]

U32Less(a, b) == a[1] < b[1] \/ (a[1] = b[1] /\ a[2] < b[2])

U32Minus(a, b) ==
    IF a[2] >= b[2] THEN <<a[1] - b[1], a[2] - b[2]>>
                    ELSE <<a[1] - b[1] - 1, (a[2] + Limb) - b[2]>>

\* Reduction modulo 2^32 of the result of an unsigned operation.
RECURSIVE U32Wrap(_)
U32Wrap(a) == IF U32Less(a, TwoTo32) THEN a ELSE U32Wrap(U32Minus(a, TwoTo32))

U32DivTen(a) == <<a[1] \div 10, (((a[1] % 10) * Limb) + a[2]) \div 10>>
U32ModTen(a) == a[2] % 10

\* (parsed_value * 10U) + digit_value in std::uint32_t
U32TimesTenPlus(a, d) ==
    LET low == (a[2] * 10) + d
    IN  U32Wrap(<<(a[1] * 10) + (low \div Limb), low % Limb>>)

max_before_multiply == U32DivTen(U32Max)
max_last_digit == U32ModTen(U32Max)

\* A faulty overflow test that lets every digit through.
WouldOverflow_Never(parsed_value, digit_value) == FALSE

\* parsed_value > max_before_multiply
\*   || (parsed_value == max_before_multiply && digit_value > max_last_digit)
WouldOverflow(parsed_value, digit_value) ==
    \/ U32Less(max_before_multiply, parsed_value)
    \/ (parsed_value = max_before_multiply /\ digit_value > max_last_digit)

\* The loop of parseU32 from character i on.
RECURSIVE parseU32From(_, _, _)
parseU32From(input, i, parsed_value) ==
    IF i > Len(input)
      THEN [value |-> parsed_value, err |-> "none"]
      ELSE IF ~IsDigit(input[i])
             THEN [value |-> U32OfInt(0), err |-> "nondigit"]
             ELSE IF WouldOverflow(parsed_value, DigitValue(input[i]))
                    THEN [value |-> U32OfInt(0), err |-> "nondigit"]
                    ELSE parseU32From(input, i + 1,
                                      U32TimesTenPlus(parsed_value, DigitValue(input[i])))

\* detail::parseU32: the value, or the message of the failure
parseU32(input) ==
    IF input = <<>>
      THEN [value |-> U32OfInt(0), err |-> "empty"]
      ELSE parseU32From(input, 1, U32OfInt(0))

kDefaultBufferSize == 512
kMinBufferSize == 64
kMaxBufferSize == 8192

\* struct Options with its default member initialisers
DefaultOptions ==
    [buffer_size |-> kDefaultBufferSize, logging |-> TRUE, stats |-> TRUE,
     pitch |-> FALSE, visual |-> TRUE]

OptHelp == <<"-", "-", "h", "e", "l", "p">>
OptH == <<"-", "h">>
OptNoLog == <<"-", "-", "n", "o", "-", "l", "o", "g">>
OptNoStats == <<"-", "-", "n", "o", "-", "s", "t", "a", "t", "s">>
OptPitch == <<"-", "-", "p", "i", "t", "c", "h">>
OptNoVisual == <<"-", "-", "n", "o", "-", "v", "i", "s", "u", "a", "l">>

\* std::unexpected {ParseError {kind, message}}
ParseFailure(kind, message) ==
    [kind |-> kind, message |-> message, options |-> DefaultOptions]

\* The loop of parseArgs from argument i on.
RECURSIVE parseArgsFrom(_, _, _, _)
parseArgsFrom(args, i, options, saw_positional) ==
    IF i > Len(args)
      THEN [kind |-> "ok", message |-> "", options |-> options]
      ELSE
        LET arg == args[i] IN
        IF arg = OptHelp \/ arg = OptH
          THEN ParseFailure("help", "")
          ELSE IF arg # <<>> /\ arg[1] # "-"
            THEN
              IF saw_positional
                THEN ParseFailure("invalid", "too many positional arguments")
                ELSE
                  LET result == parseU32(arg) IN
                  IF result.err # "none"
                    THEN ParseFailure("invalid", "not a base-10 unsigned integer")
                    ELSE IF \/ U32Less(result.value, U32OfInt(kMinBufferSize))
                            \/ U32Less(U32OfInt(kMaxBufferSize), result.value)
                      THEN ParseFailure("invalid", "out of range")
                      ELSE parseArgsFrom(args, i + 1,
                               [options EXCEPT !.buffer_size = IntOfU32(result.value)],
                               TRUE)
            ELSE IF arg = OptNoLog
              THEN parseArgsFrom(args, i + 1, [options EXCEPT !.logging = FALSE],
                                 saw_positional)
            ELSE IF arg = OptNoStats
              THEN parseArgsFrom(args, i + 1, [options EXCEPT !.stats = FALSE],
                                 saw_positional)
            ELSE IF arg = OptPitch
              THEN parseArgsFrom(args, i + 1, [options EXCEPT !.pitch = TRUE],
                                 saw_positional)
            ELSE IF arg = OptNoVisual
              THEN parseArgsFrom(args, i + 1, [options EXCEPT !.visual = FALSE],
                                 saw_positional)
            ELSE ParseFailure("invalid", "unknown option")

\* beat_detector::parseArgs: args[0], the program name, is skipped
parseArgs(args) ==
    parseArgsFrom(args, IF Len(args) > 0 THEN 2 ELSE 1, DefaultOptions, FALSE)

\* main() has not called parseArgs yet.
NotParsed == [kind |-> "none", message |-> "", options |-> DefaultOptions]

\* main() has not returned.
NoExit == -1

ProgName == <<"b", "e", "a", "t">>

\* main() up to the construction of the detector (main.cpp:153-179): the
\* arguments are parsed; help returns 0, any other failure returns 1, and on
\* success the signal handlers are registered.
MainParse ==
    /\ main_pc = "entry"
    /\ parsed' = parseArgs(argv)
    /\ IF parsed'.kind = "ok"
         THEN main_pc' = "start" /\ UNCHANGED exit_code
         ELSE /\ main_pc' = "exited"
              /\ exit_code' = IF parsed'.kind = "help" THEN 0 ELSE 1
    /\ last_op' = "parse"
    /\ UNCHANGED <<quit, stopping, instance, main_loop, stream, stop_requested,
                   monitor_pc, stream_state, active, loop_quit, event_src,
                   disconnect_calls, deactivate_calls, stop_calls, signalled>>
    /\ UNCHANGED <<argv, init_steps, init_error, stream_destroys, processing_times_ms>>
    /\ UNCHANGED <<qvars, rvars, cvars>>

\* main() after a successful parse of a command line without arguments.
MainParsed ==
    /\ argv = <<ProgName>>
    /\ parsed = parseArgs(argv)
    /\ exit_code = NoExit

(***************************************************************************)
(* The process callback (impl.cpp:385-517) and the buffer view it builds   *)
(* (audio.blocks.spa.ixx, audio.blocks:core).  A buffer of the transport   *)
(* is the record of what the callback reads of it: whether                 *)
(* pw_buf->buffer, datas[0].data and datas[0].chunk are non-null, and the  *)
(* chunk's size in bytes and stride.                                       *)
(***************************************************************************)
\* DetectorState::buffer_size and pitch_enabled, as the constructor got them
\* from main()
buffer_size == parsed.options.buffer_size
pitch_enabled == parsed.options.pitch

SizeofFloat == 4

RtBuffer(inner, data, chunk, size, stride) ==
    [inner |-> inner, data |-> data, chunk |-> chunk, size |-> size, stride |-> stride]

\* The buffers the transport hands out: without inner buffer, data or chunk;
\* of one block; with the stride left unset; of two blocks and one sample; of
\* half a block; of no bytes; of a size that is no multiple of the sample size;
\* with the stride of two samples.
RtBuffers ==
    LET block_bytes == buffer_size * SizeofFloat IN
    { RtBuffer(FALSE, FALSE, FALSE, 0, 0),
      RtBuffer(TRUE, FALSE, TRUE, block_bytes, SizeofFloat),
      RtBuffer(TRUE, TRUE, FALSE, 0, 0),
      RtBuffer(TRUE, TRUE, TRUE, block_bytes, SizeofFloat),
      RtBuffer(TRUE, TRUE, TRUE, block_bytes, 0),
      RtBuffer(TRUE, TRUE, TRUE, (2 * block_bytes) + SizeofFloat, SizeofFloat),
      RtBuffer(TRUE, TRUE, TRUE, block_bytes \div 2, SizeofFloat),
      RtBuffer(TRUE, TRUE, TRUE, 0, SizeofFloat),
      RtBuffer(TRUE, TRUE, TRUE, block_bytes + 2, SizeofFloat),
      RtBuffer(TRUE, TRUE, TRUE, block_bytes, 2 * SizeofFloat) }

\* detail::spaDataPtr(buffer) != nullptr
spaDataPtr(buffer) == buffer.inner /\ buffer.data

\* detail::spaSizeBytes
spaSizeBytes(buffer) == IF buffer.inner /\ buffer.chunk THEN buffer.size ELSE 0

\* detail::spaStrideBytes
spaStrideBytes(buffer, default_stride) ==
    IF ~buffer.inner \/ ~buffer.chunk
      THEN 0
      ELSE IF buffer.stride # 0 THEN buffer.stride ELSE default_stride

\* std::unexpected {ViewError}
ViewFailure(error) == [err |-> error, samples |-> 0, block |-> 0]

\* audio_blocks::makeBufferViewFromBytes<float>
makeBufferViewFromBytes(data, byte_size, block_size_samples) ==
    IF ~data THEN ViewFailure("NullData")
    ELSE IF block_size_samples = 0 THEN ViewFailure("ZeroBlockSize")
    ELSE IF byte_size % SizeofFloat # 0 THEN ViewFailure("MisalignedBytes")
    ELSE [err |-> "none", samples |-> byte_size \div SizeofFloat,
          block |-> block_size_samples]

\* makeBufferViewFromSpaMonoF32
makeBufferViewFromSpaMonoF32(buffer, block_size_samples) ==
    IF ~spaDataPtr(buffer) THEN ViewFailure("NullData")
    ELSE IF block_size_samples = 0 THEN ViewFailure("ZeroBlockSize")
    ELSE IF spaStrideBytes(buffer, SizeofFloat) # SizeofFloat
      THEN ViewFailure("UnsupportedStride")
    ELSE IF spaSizeBytes(buffer) % SizeofFloat # 0 THEN ViewFailure("MisalignedBytes")
    ELSE makeBufferViewFromBytes(spaDataPtr(buffer), spaSizeBytes(buffer),
                                 block_size_samples)

\* BlockRange::begin: the offset of the first block.
BlockRangeBegin == 0

\* BlockRange::end: usable = (all_.size() / block_) * block_
BlockRangeEnd(view) == (view.samples \div view.block) * view.block

\* A faulty range that takes the trailing samples for one more block.
BlockCount_RoundsUp(view) == (view.samples + view.block - 1) \div view.block

\* The iterations of for (auto block : view.blocks()): from offset 0 in steps
\* of block to (size / block) * block
BlockCount(view) == (BlockRangeEnd(view) - BlockRangeBegin) \div view.block

\* Iterator::operator* after the iterations made so far: the block is
\* all_.subspan(offset_, block_), and operator++ has added block_ to offset_
\* once per iteration.
CurrentBlock(iterations, block) ==
    [offset |-> BlockRangeBegin + (iterations * block), length |-> block]

\* The blocks analysed by the invocation in progress, or by the latest one.
OfThisCall(entry) == entry.call = rt_calls

\* The entry of the history for an analysed block: the invocation, the block
\* and the detection results.
BlockEntry(call, block, is_beat, is_onset) ==
    [call |-> call, offset |-> block.offset, length |-> block.length,
     is_beat |-> is_beat, is_onset |-> is_onset]

\* The value aubio_tempo_get_bpm reports to the callback.
TempoBpms == {120}

\* The values aubio_pitch_do yields; pitch_hz stays 0 when pitch is disabled.
PitchChoices == IF pitch_enabled THEN {0, 440} ELSE {0}

\* A faulty bookkeeping that produces an event for beats only.
ProducedEvent_BeatOnly(is_beat, is_onset) == is_beat

\* produced_event after the is_beat and the is_onset branch
ProducedEvent(is_beat, is_onset) == is_beat \/ is_onset

\* A faulty producer that measures the block and stores the time in the Event.
MakeEvent_Timed(is_beat, is_onset, bpm_now, pitch_hz) ==
    [is_beat |-> is_beat, is_onset |-> is_onset, bpm |-> bpm_now,
     pitch_hz |-> pitch_hz, process_ms |-> 1]

\* DetectorState::Event {is_beat, is_onset, bpm_now, pitch_hz, 0.0}
MakeEvent(is_beat, is_onset, bpm_now, pitch_hz) ==
    [is_beat |-> is_beat, is_onset |-> is_onset, bpm |-> bpm_now,
     pitch_hz |-> pitch_hz, process_ms |-> 0]

\* ~BufferLease: stream != nullptr && buffer != nullptr
LeaseRequeues(held) == held.stream # "null"

\* A faulty callback that, when it finds quit set, asks the main loop to quit.
RT_Enter_QuitsLoop ==
    /\ rt_pc = "idle"
    /\ main_pc = "running" /\ stream = "owned" /\ stream_state = "streaming"
    /\ rt_calls < MaxCalls
    /\ rt_calls' = rt_calls + 1
    /\ IF quit
         THEN /\ rt_path' = "quit"
              /\ loop_quit' = TRUE
              /\ UNCHANGED <<rt_pc, lease, dequeues>>
         ELSE /\ UNCHANGED loop_quit
              /\ \/ /\ rt_path' = "no_buffer"
                    /\ UNCHANGED <<rt_pc, lease, dequeues>>
                 \/ \E buffer \in RtBuffers :
                      /\ lease' = <<[stream |-> stream, buffer |-> buffer]>>
                      /\ dequeues' = dequeues + 1
                      /\ rt_pc' = "leased"
                      /\ rt_path' = "dequeued"
    /\ UNCHANGED <<total_beats, total_onsets, last_bpm, bpm, blocks_left, requeues,
                   rejections, blocks_log, payload, bpm_hist>>
    /\ UNCHANGED <<quit, stopping, instance, main_loop, stream, stop_requested,
                   monitor_pc, main_pc, stream_state, active, event_src,
                   disconnect_calls, deactivate_calls, stop_calls, signalled, last_op>>
    /\ UNCHANGED <<qvars, mvars, cvars>>

\* The transport invokes process while the stream is streaming.  The callback
\* returns at once when quit is set; else it dequeues a buffer, if there is
\* one, and takes the lease on it.
RT_Enter ==
    /\ rt_pc = "idle"
    /\ main_pc = "running" /\ stream = "owned" /\ stream_state = "streaming"
    /\ rt_calls < MaxCalls
    /\ rt_calls' = rt_calls + 1
    /\ IF quit
         THEN /\ rt_path' = "quit"
              /\ UNCHANGED <<rt_pc, lease, dequeues>>
         ELSE \/ /\ rt_path' = "no_buffer"
                 /\ UNCHANGED <<rt_pc, lease, dequeues>>
              \/ \E buffer \in RtBuffers :
                   /\ lease' = <<[stream |-> stream, buffer |-> buffer]>>
                   /\ dequeues' = dequeues + 1
                   /\ rt_pc' = "leased"
                   /\ rt_path' = "dequeued"
    /\ UNCHANGED <<total_beats, total_onsets, last_bpm, bpm, blocks_left, requeues,
                   rejections, blocks_log, payload, bpm_hist>>
    /\ UNCHANGED <<qvars, lvars, mvars, cvars>>

\* A faulty callback that runs the block loop on a rejected buffer too.
RT_Inspect_AnalysesRejected ==
    /\ rt_pc = "leased"
    /\ LET buffer == lease[1].buffer
           view == makeBufferViewFromSpaMonoF32(buffer, buffer_size)
           blocks == buffer.size \div (SizeofFloat * buffer_size)
       IN  IF ~(buffer.inner /\ buffer.data /\ buffer.chunk)
             THEN /\ rt_path' = "null_buffer"
                  /\ rt_pc' = "release"
                  /\ UNCHANGED <<blocks_left, rejections>>
             ELSE /\ rejections' = IF view.err # "none"
                                     THEN Append(rejections, view.err) ELSE rejections
                  /\ rt_path' = IF view.err # "none" THEN "rejected" ELSE "viewed"
                  /\ blocks_left' = blocks
                  /\ rt_pc' = IF blocks = 0 THEN "release" ELSE "block"
    /\ UNCHANGED <<total_beats, total_onsets, last_bpm, bpm, lease, rt_calls, dequeues,
                   requeues, blocks_log, payload, bpm_hist>>
    /\ UNCHANGED <<qvars, lvars, mvars, cvars>>

\* The null tests of impl.cpp:408-410, then the view over the buffer: a
\* rejected buffer is reported on stderr and skipped, an accepted one is
\* handed to process_view.
RT_Inspect ==
    /\ rt_pc = "leased"
    /\ LET buffer == lease[1].buffer
           view == makeBufferViewFromSpaMonoF32(buffer, buffer_size)
       IN  IF ~(buffer.inner /\ buffer.data /\ buffer.chunk)
             THEN /\ rt_path' = "null_buffer"
                  /\ rt_pc' = "release"
                  /\ UNCHANGED <<blocks_left, rejections>>
             ELSE IF view.err # "none"
               THEN /\ rejections' = Append(rejections, view.err)
                    /\ rt_path' = "rejected"
                    /\ rt_pc' = "release"
                    /\ UNCHANGED blocks_left
               ELSE /\ blocks_left' = BlockCount(view)
                    /\ rt_path' = "viewed"
                    /\ rt_pc' = IF BlockCount(view) = 0 THEN "release" ELSE "block"
                    /\ UNCHANGED rejections
    /\ UNCHANGED <<total_beats, total_onsets, last_bpm, bpm, lease, rt_calls, dequeues,
                   requeues, blocks_log, payload, bpm_hist>>
    /\ UNCHANGED <<qvars, lvars, mvars, cvars>>

\* A faulty bookkeeping that counts an onset only when the block is no beat.
RT_Block_OnsetCountedPerEvent ==
    /\ rt_pc = "block"
    /\ \E is_beat, is_onset \in BOOLEAN, tempo_bpm \in TempoBpms, pitch_hz \in PitchChoices :
         LET bpm_now == IF is_beat THEN tempo_bpm ELSE last_bpm IN
         /\ blocks_log' = Append(blocks_log,
               BlockEntry(rt_calls,
                          CurrentBlock(Len(SelectSeq(blocks_log, OfThisCall)),
                                       buffer_size),
                          is_beat, is_onset))
         /\ total_beats' = IF is_beat THEN total_beats + 1 ELSE total_beats
         /\ last_bpm' = bpm_now
         /\ bpm' = IF is_beat THEN BpmRecorded(bpm, bpm_now) ELSE bpm
         /\ bpm_hist' = IF is_beat THEN Append(bpm_hist, bpm_now) ELSE bpm_hist
         /\ total_onsets' = IF is_onset /\ ~is_beat THEN total_onsets + 1 ELSE total_onsets
         /\ IF ProducedEvent(is_beat, is_onset)
              THEN /\ payload' = Append(payload, MakeEvent(is_beat, is_onset, bpm_now, pitch_hz))
                   /\ rt_pc' = "push"
                   /\ UNCHANGED blocks_left
              ELSE /\ blocks_left' = blocks_left - 1
                   /\ rt_pc' = IF blocks_left = 1 THEN "release" ELSE "block"
                   /\ UNCHANGED payload
    /\ UNCHANGED <<lease, rt_calls, rt_path, dequeues, requeues, rejections>>
    /\ UNCHANGED <<qvars, lvars, mvars, cvars>>

\* One iteration of process_view up to the push: tempo, onset and pitch
\* analysis of the block, the totals, the BPM record, and the Event when one
\* is produced.
RT_Block ==
    /\ rt_pc = "block"
    /\ \E is_beat, is_onset \in BOOLEAN, tempo_bpm \in TempoBpms, pitch_hz \in PitchChoices :
         LET bpm_now == IF is_beat THEN tempo_bpm ELSE last_bpm IN
         /\ blocks_log' = Append(blocks_log,
               BlockEntry(rt_calls,
                          CurrentBlock(Len(SelectSeq(blocks_log, OfThisCall)),
                                       buffer_size),
                          is_beat, is_onset))
         /\ total_beats' = IF is_beat THEN total_beats + 1 ELSE total_beats
         /\ last_bpm' = bpm_now
         /\ bpm' = IF is_beat THEN BpmRecorded(bpm, bpm_now) ELSE bpm
         /\ bpm_hist' = IF is_beat THEN Append(bpm_hist, bpm_now) ELSE bpm_hist
         /\ total_onsets' = IF is_onset THEN total_onsets + 1 ELSE total_onsets
         /\ IF ProducedEvent(is_beat, is_onset)
              THEN /\ payload' = Append(payload, MakeEvent(is_beat, is_onset, bpm_now, pitch_hz))
                   /\ rt_pc' = "push"
                   /\ UNCHANGED blocks_left
              ELSE /\ blocks_left' = blocks_left - 1
                   /\ rt_pc' = IF blocks_left = 1 THEN "release" ELSE "block"
                   /\ UNCHANGED payload
    /\ UNCHANGED <<lease, rt_calls, rt_path, dequeues, requeues, rejections>>
    /\ UNCHANGED <<qvars, lvars, mvars, cvars>>

\* The push of the Event just produced begins.
RT_PushBegin ==
    /\ rt_pc = "push"
    /\ npush < Len(payload)
    /\ P_LoadHead

\* The push is over: the loop goes on with the next block, or ends.
RT_Pushed ==
    /\ rt_pc = "push"
    /\ ppc = "idle"
    /\ npush = Len(payload)
    /\ blocks_left' = blocks_left - 1
    /\ rt_pc' = IF blocks_left = 1 THEN "release" ELSE "block"
    /\ UNCHANGED <<total_beats, total_onsets, last_bpm, bpm, lease, rt_calls, rt_path,
                   dequeues, requeues, rejections, blocks_log, payload, bpm_hist>>
    /\ UNCHANGED <<qvars, lvars, mvars, cvars>>

\* A faulty callback that queues the buffer back only after an analysis.
RT_Release_AfterAnalysisOnly ==
    /\ rt_pc = "release"
    /\ requeues' = IF rt_path = "viewed" THEN requeues + 1 ELSE requeues
    /\ lease' = <<>>
    /\ rt_pc' = "idle"
    /\ UNCHANGED <<total_beats, total_onsets, last_bpm, bpm, blocks_left, rt_calls,
                   rt_path, dequeues, rejections, blocks_log, payload, bpm_hist>>
    /\ UNCHANGED <<qvars, lvars, mvars, cvars>>

\* The callback returns: ~BufferLease queues the buffer back.
RT_Release ==
    /\ rt_pc = "release"
    /\ requeues' = IF LeaseRequeues(lease[1]) THEN requeues + 1 ELSE requeues
    /\ lease' = <<>>
    /\ rt_pc' = "idle"
    /\ UNCHANGED <<total_beats, total_onsets, last_bpm, bpm, blocks_left, rt_calls,
                   rt_path, dequeues, rejections, blocks_log, payload, bpm_hist>>
    /\ UNCHANGED <<qvars, lvars, mvars, cvars>>

(***************************************************************************)
(* The lifecycle: main(), the quit monitor, stop(), the signal handler and *)
(* the stream callbacks.                                                   *)
(***************************************************************************)
MainPCs == {"entry", "exited", "start", "constructed", "initialized", "init_failed",
            "running", "run_threw", "returned", "dtor_join", "destroyed"}

\* Where initialize() can end: before the main loop exists (log file, main
\* loop), before the stream exists (tempo, buffers, onset, pitch, stream
\* creation), at the connect, or with success.
InitOutcomes == {"no_loop", "no_stream", "connect_failed", "ok"}

InitOp(outcome) ==
    CASE outcome = "no_loop" -> "initialize_no_loop"
      [] outcome = "no_stream" -> "initialize_no_stream"
      [] outcome = "connect_failed" -> "initialize_connect_failed"
      [] OTHER -> "initialize_ok"

\* The steps of the lifecycle leave the queue and the process callback alone.
qfixed == UNCHANGED <<qvars, rvars, cvars>>

\* The steps of the detector leave main()'s own state alone.
mfixed == UNCHANGED mvars

\* BeatDetector detector(...): the DetectorState constructor registers the
\* instance and spawns the quit monitor.
Construct ==
    /\ main_pc = "start"
    /\ instance' = TRUE
    /\ monitor_pc' = "polling"
    /\ main_pc' = "constructed"
    /\ last_op' = "construct"
    /\ UNCHANGED <<quit, stopping, main_loop, stream, stop_requested, stream_state,
                   active, loop_quit, event_src, disconnect_calls, deactivate_calls,
                   stop_calls, signalled>>
    /\ qfixed
    /\ mfixed

\* The steps of initialize() in the order of the code: the log file is opened
\* only when logging is enabled and the pitch detector is created only when
\* pitch detection is enabled (impl.cpp:281-335, 523-570).
InitSteps(options) ==
    (IF options.logging THEN <<"log">> ELSE <<>>)
      \o <<"main_loop", "tempo", "buffers", "onset">>
      \o (IF options.pitch THEN <<"pitch">> ELSE <<>>)
      \o <<"stream", "connect", "event_src">>

\* The steps whose failure initialize() tests: the result of pw_loop_add_event
\* is stored without a test.
FailableSteps == {"log", "main_loop", "tempo", "buffers", "onset", "pitch",
                  "stream", "connect"}

NoError == ""

\* The message of the error returned when a step fails.
InitError(step) ==
    CASE step = "log" -> "failed to open log file"
      [] step = "main_loop" -> "failed to create main loop"
      [] step = "tempo" -> "failed to create aubio tempo"
      [] step = "buffers" -> "failed to create aubio buffers"
      [] step = "onset" -> "failed to create aubio onset"
      [] step = "pitch" -> "failed to create aubio pitch"
      [] step = "stream" -> "failed to  create stream"
      [] step = "connect" -> "failed to connect to stream"
      [] OTHER -> NoError

\* Where initialize() ends when the given step fails ("none": no step fails).
OutcomeOf(step) ==
    CASE step \in {"log", "main_loop"} -> "no_loop"
      [] step \in {"tempo", "buffers", "onset", "pitch", "stream"} -> "no_stream"
      [] step = "connect" -> "connect_failed"
      [] OTHER -> "ok"

\* The index of a step in a sequence of steps, 0 when it is not there.
StepIndex(steps, step) ==
    IF \E i \in DOMAIN steps : steps[i] = step
      THEN CHOOSE i \in DOMAIN steps : steps[i] = step
      ELSE 0

\* The steps initialize() attempts when the given step fails: those up to
\* and including it.
StepsUpTo(steps, failed) ==
    IF failed = "none" THEN steps ELSE SubSeq(steps, 1, StepIndex(steps, failed))

\* A faulty destroy handler that resets the handle it still holds.
DestroyHandlerDestroys_Resets(held) == IF held = "owned" THEN 1 ELSE 0

\* pw_stream_events::destroy, run by the transport inside pw_stream_destroy:
\* a handle that is still held is released, not reset (impl.cpp:339-346).
\* The calls of pw_stream_destroy the handler makes, given the handle it finds.
DestroyHandlerDestroys(held) == 0

\* A faulty initialize() that keeps the stream after a failed connect.
StreamAfterInit_KeepsOnFailedConnect(outcome) ==
    IF outcome \in {"ok", "connect_failed"} THEN "owned" ELSE "null"

\* The stream handle initialize() leaves: the stream of a failed connect is
\* reset (impl.cpp:562-565).
StreamAfterInit(outcome) == IF outcome = "ok" THEN "owned" ELSE "null"

\* detector.initialize(): the first failing step returns its error; on a
\* failed connect the stream is reset, which empties the handle and then
\* destroys the stream (the destroy handler finds the handle empty); on success
\* pw_stream_connect has reported Connecting and the event source exists.
Initialize ==
    /\ main_pc = "constructed"
    /\ \E failed \in {"none"} \cup
                     {step \in FailableSteps :
                        StepIndex(InitSteps(parsed.options), step) # 0} :
         LET outcome == OutcomeOf(failed) IN
         /\ outcome \in InitOutcomes
         /\ init_steps' = StepsUpTo(InitSteps(parsed.options), failed)
         /\ init_error' = InitError(failed)
         /\ main_loop' = IF outcome = "no_loop" THEN "null" ELSE "created"
         /\ stream' = StreamAfterInit(outcome)
         /\ stream_destroys' = IF outcome = "connect_failed"
                                 THEN stream_destroys + 1 + DestroyHandlerDestroys("null")
                                 ELSE stream_destroys
         /\ stream_state' = IF outcome = "ok" THEN "connecting" ELSE stream_state
         /\ event_src' = (outcome = "ok")
         /\ main_pc' = IF outcome = "ok" THEN "initialized" ELSE "init_failed"
         /\ last_op' = InitOp(outcome)
    /\ UNCHANGED <<quit, stopping, instance, stop_requested, monitor_pc, active,
                   loop_quit, disconnect_calls, deactivate_calls, stop_calls, signalled>>
    /\ UNCHANGED <<argv, parsed, exit_code, processing_times_ms>>
    /\ qfixed

\* The state of the history before initialize() is called.
NotInitialized ==
    /\ init_steps = <<>> /\ init_error = NoError /\ stream_destroys = 0
    /\ processing_times_ms = <<>>

\* The state of the history after initialize() succeeded.
InitSucceeded ==
    /\ init_steps = InitSteps(parsed.options)
    /\ init_error = NoError
    /\ stream_destroys = 0
    /\ processing_times_ms = <<>>

\* detector.run(): returns at once without a main loop; else stores false into
\* quit and enters pw_main_loop_run.  Whether a pw_main_loop_quit made before
\* the loop ran still ends it is the transport library's choice.
Run ==
    /\ main_pc = "initialized"
    /\ IF main_loop = "null"
         THEN /\ main_pc' = "returned"
              /\ UNCHANGED <<quit, loop_quit>>
         ELSE /\ quit' = FALSE
              /\ main_pc' = "running"
              /\ \E kept \in BOOLEAN : loop_quit' = (loop_quit /\ kept)
    /\ last_op' = "run"
    /\ UNCHANGED <<stopping, instance, main_loop, stream, stop_requested, monitor_pc,
                   stream_state, active, event_src, disconnect_calls, deactivate_calls,
                   stop_calls, signalled>>
    /\ qfixed
    /\ mfixed

\* detector.run() when the printing of its banner (std::println) throws: quit
\* was stored false, the exception leaves run() and main() catches it.
RunThrows ==
    /\ main_pc = "initialized"
    /\ main_loop # "null"
    /\ quit' = FALSE
    /\ main_pc' = "run_threw"
    /\ last_op' = "run_throw"
    /\ UNCHANGED <<stopping, instance, main_loop, stream, stop_requested, monitor_pc,
                   stream_state, active, loop_quit, event_src, disconnect_calls,
                   deactivate_calls, stop_calls, signalled>>
    /\ qfixed
    /\ mfixed

\* pw_main_loop_run returns once the loop was asked to quit; run() returns.
LoopExit ==
    /\ main_pc = "running"
    /\ loop_quit
    /\ loop_quit' = FALSE
    /\ main_pc' = "returned"
    /\ last_op' = "run_return"
    /\ UNCHANGED <<quit, stopping, instance, main_loop, stream, stop_requested,
                   monitor_pc, stream_state, active, event_src, disconnect_calls,
                   deactivate_calls, stop_calls, signalled>>
    /\ qfixed
    /\ mfixed

\* A faulty monitor that ends only when it observes quit.
MonitorPoll_IgnoresStopToken ==
    /\ monitor_pc = "polling"
    /\ quit
    /\ loop_quit' = IF main_loop # "null" THEN TRUE ELSE loop_quit
    /\ monitor_pc' = "done"
    /\ last_op' = "monitor"
    /\ UNCHANGED <<quit, stopping, instance, main_loop, stream, stop_requested,
                   main_pc, stream_state, active, event_src, disconnect_calls,
                   deactivate_calls, stop_calls, signalled>>
    /\ qfixed
    /\ mfixed

\* One iteration of the quit monitor that does not end in the 50 ms sleep: the
\* stop token was requested, or quit was observed.
MonitorPoll ==
    /\ monitor_pc = "polling"
    /\ \/ /\ stop_requested
          /\ UNCHANGED loop_quit
       \/ /\ quit
          /\ loop_quit' = IF main_loop # "null" THEN TRUE ELSE loop_quit
    /\ monitor_pc' = "done"
    /\ last_op' = "monitor"
    /\ UNCHANGED <<quit, stopping, instance, main_loop, stream, stop_requested,
                   main_pc, stream_state, active, event_src, disconnect_calls,
                   deactivate_calls, stop_calls, signalled>>
    /\ qfixed
    /\ mfixed

\* A faulty signal handler that asks the main loop to quit itself.
SignalHandler_QuitsLoop ==
    /\ IF instance
         THEN quit' = TRUE /\ signalled' = TRUE
         ELSE UNCHANGED <<quit, signalled>>
    /\ loop_quit' = TRUE
    /\ last_op' = "signal"
    /\ UNCHANGED <<stopping, instance, main_loop, stream, stop_requested, monitor_pc,
                   main_pc, stream_state, active, event_src,
                   disconnect_calls, deactivate_calls, stop_calls>>
    /\ qfixed
    /\ mfixed

\* BeatDetector::signalHandler
SignalHandler ==
    /\ IF instance
         THEN quit' = TRUE /\ signalled' = TRUE
         ELSE UNCHANGED <<quit, signalled>>
    /\ last_op' = "signal"
    /\ UNCHANGED <<stopping, instance, main_loop, stream, stop_requested, monitor_pc,
                   main_pc, stream_state, active, loop_quit, event_src,
                   disconnect_calls, deactivate_calls, stop_calls>>
    /\ qfixed
    /\ mfixed

\* A faulty stop() that disconnects the stream itself.
Stop_EagerDisconnect ==
    /\ main_pc \in {"constructed", "initialized", "init_failed", "running", "returned"}
    /\ stop_calls < MaxStops
    /\ quit' = TRUE
    /\ IF stream # "null"
         THEN /\ stopping' = TRUE
              /\ active' = FALSE
              /\ deactivate_calls' = deactivate_calls + 1
              /\ disconnect_calls' = disconnect_calls + 1
              /\ stream_state' = "unconnected"
         ELSE UNCHANGED <<stopping, active, deactivate_calls, disconnect_calls,
                          stream_state>>
    /\ stop_calls' = stop_calls + 1
    /\ last_op' = "stop"
    /\ UNCHANGED <<instance, main_loop, stream, stop_requested, monitor_pc, main_pc,
                   loop_quit, event_src, signalled>>
    /\ qfixed
    /\ mfixed

\* A faulty stop() that, called again while stopping is set, disconnects the
\* stream itself.
Stop_EscalateOnRepeat ==
    /\ main_pc \in {"constructed", "initialized", "init_failed", "running", "returned"}
    /\ stop_calls < MaxStops
    /\ quit' = TRUE
    /\ IF stream # "null"
         THEN /\ stopping' = TRUE
              /\ active' = FALSE
              /\ deactivate_calls' = deactivate_calls + 1
              /\ IF stopping
                   THEN /\ disconnect_calls' = disconnect_calls + 1
                        /\ stream_state' = "unconnected"
                   ELSE UNCHANGED <<disconnect_calls, stream_state>>
         ELSE UNCHANGED <<stopping, active, deactivate_calls, disconnect_calls,
                          stream_state>>
    /\ stop_calls' = stop_calls + 1
    /\ last_op' = "stop"
    /\ UNCHANGED <<instance, main_loop, stream, stop_requested, monitor_pc, main_pc,
                   loop_quit, event_src, signalled>>
    /\ qfixed
    /\ mfixed

\* BeatDetector::stop, called by a client while the detector exists
Stop ==
    /\ main_pc \in {"constructed", "initialized", "init_failed", "running", "returned"}
    /\ stop_calls < MaxStops
    /\ quit' = TRUE
    /\ IF stream # "null"
         THEN /\ stopping' = TRUE
              /\ active' = FALSE
              /\ deactivate_calls' = deactivate_calls + 1
         ELSE UNCHANGED <<stopping, active, deactivate_calls>>
    /\ stop_calls' = stop_calls + 1
    /\ last_op' = "stop"
    /\ UNCHANGED <<instance, main_loop, stream, stop_requested, monitor_pc, main_pc,
                   stream_state, loop_quit, event_src, disconnect_calls, signalled>>
    /\ qfixed
    /\ mfixed

\* The state changes the transport reports for a connected stream.
TransportStep(from, to) ==
    \/ from = "connecting" /\ to = "paused"
    \/ from = "paused" /\ to = "streaming" /\ active
    \/ from = "streaming" /\ to = "paused"
    \/ from \in {"connecting", "paused", "streaming"} /\ to = "error"

NotifyOp(state) ==
    CASE state = "paused" -> "state_changed_paused"
      [] state = "streaming" -> "state_changed_streaming"
      [] OTHER -> "state_changed_error"

\* A faulty PAUSED branch that does not test stopping.
PausedDisconnects_IgnoreStopping(is_stopping, the_stream) == the_stream # "null"

\* state == PAUSED: event_state->stopping && event_state->stream != nullptr
PausedDisconnects(is_stopping, the_stream) == is_stopping /\ the_stream # "null"

\* A faulty state_changed that does not react to the Error state.
StateChanged_ErrorIgnored ==
    /\ main_pc = "running"
    /\ stream = "owned"
    /\ \E state \in {"paused", "streaming", "error"} :
         /\ TransportStep(stream_state, state)
         /\ UNCHANGED loop_quit
         /\ IF state = "paused" /\ PausedDisconnects(stopping, stream)
              THEN /\ disconnect_calls' = disconnect_calls + 1
                   /\ stream_state' = "unconnected"
              ELSE /\ stream_state' = state
                   /\ UNCHANGED disconnect_calls
         /\ last_op' = NotifyOp(state)
    /\ UNCHANGED <<quit, stopping, instance, main_loop, stream, stop_requested,
                   monitor_pc, main_pc, active, event_src, deactivate_calls,
                   stop_calls, signalled>>
    /\ qfixed
    /\ mfixed

\* pw_stream_events::state_changed, dispatched by the running main loop.  The
\* disconnect leaves the stream Unconnected.
StateChanged ==
    /\ main_pc = "running"
    /\ stream = "owned"
    /\ \E state \in {"paused", "streaming", "error"} :
         /\ TransportStep(stream_state, state)
         /\ loop_quit' = IF state = "error" /\ main_loop # "null" THEN TRUE ELSE loop_quit
         /\ IF state = "paused" /\ PausedDisconnects(stopping, stream)
              THEN /\ disconnect_calls' = disconnect_calls + 1
                   /\ stream_state' = "unconnected"
              ELSE /\ stream_state' = state
                   /\ UNCHANGED disconnect_calls
         /\ last_op' = NotifyOp(state)
    /\ UNCHANGED <<quit, stopping, instance, main_loop, stream, stop_requested,
                   monitor_pc, main_pc, active, event_src, deactivate_calls,
                   stop_calls, signalled>>
    /\ qfixed
    /\ mfixed

\* pw_stream_events::destroy: the transport destroys the stream and the
\* controller drops its ownership.
StreamDestroyed ==
    /\ main_pc = "running"
    /\ stream = "owned"
    /\ stream' = "null"
    /\ stream_state' = "unconnected"
    /\ last_op' = "destroy_cb"
    /\ UNCHANGED <<quit, stopping, instance, main_loop, stop_requested, monitor_pc,
                   main_pc, active, loop_quit, event_src, disconnect_calls,
                   deactivate_calls, stop_calls, signalled>>
    /\ qfixed
    /\ stream_destroys' = stream_destroys + 1 + DestroyHandlerDestroys(stream)
    /\ UNCHANGED <<argv, parsed, exit_code, init_steps, init_error, processing_times_ms>>

\* A faulty main() that returns 0 whatever happened.
DtorBegin_ReturnsZero ==
    /\ main_pc \in {"init_failed", "returned", "run_threw"}
    /\ exit_code' = 0
    /\ instance' = FALSE
    /\ stop_requested' = TRUE
    /\ main_pc' = "dtor_join"
    /\ last_op' = "dtor"
    /\ UNCHANGED <<quit, stopping, main_loop, stream, monitor_pc, stream_state, active,
                   loop_quit, event_src, disconnect_calls, deactivate_calls,
                   stop_calls, signalled>>
    /\ UNCHANGED <<argv, parsed, init_steps, init_error, stream_destroys,
                   processing_times_ms>>
    /\ qfixed

\* main() returns 1 after a failed initialize() or an exception caught from
\* run(), and 0 after run() returned (main.cpp:187-199); the return destroys
\* the detector.  ~BeatDetector, first part: ~DetectorState clears the instance
\* and the jthread's destructor requests the monitor's stop and joins it.
DtorBegin ==
    /\ main_pc \in {"init_failed", "returned", "run_threw"}
    /\ exit_code' = IF main_pc = "returned" THEN 0 ELSE 1
    /\ instance' = FALSE
    /\ stop_requested' = TRUE
    /\ main_pc' = "dtor_join"
    /\ last_op' = "dtor"
    /\ UNCHANGED <<quit, stopping, main_loop, stream, monitor_pc, stream_state, active,
                   loop_quit, event_src, disconnect_calls, deactivate_calls,
                   stop_calls, signalled>>
    /\ UNCHANGED <<argv, parsed, init_steps, init_error, stream_destroys,
                   processing_times_ms>>
    /\ qfixed

\* ~BeatDetector, second part: once the monitor is joined, the stream and then
\* the main loop are destroyed.  StreamDeleter destroys a stream that is still
\* held; whether the destroy handler then finds the handle already emptied is
\* the standard library's choice.
DtorEnd ==
    /\ main_pc = "dtor_join"
    /\ monitor_pc = "done"
    /\ stream' = "null"
    /\ main_loop' = "null"
    /\ main_pc' = "destroyed"
    /\ last_op' = "dtor"
    /\ UNCHANGED <<quit, stopping, instance, stop_requested, monitor_pc, stream_state,
                   active, loop_quit, event_src, disconnect_calls, deactivate_calls,
                   stop_calls, signalled>>
    /\ qfixed
    /\ \E held \in {"owned", "null"} :
         stream_destroys' = IF stream = "owned"
                              THEN stream_destroys + 1 + DestroyHandlerDestroys(held)
                              ELSE stream_destroys
    /\ UNCHANGED <<argv, parsed, exit_code, init_steps, init_error, processing_times_ms>>

\* The steps of the main thread.
MainNext == Construct \/ Initialize \/ Run \/ LoopExit \/ DtorBegin \/ DtorEnd

\* The process before main() constructs the detector.
InitLife ==
    /\ QueueInit
    /\ RtInit
    /\ quit = FALSE /\ stopping = FALSE /\ instance = FALSE
    /\ main_loop = "null" /\ stream = "null"
    /\ stop_requested = FALSE /\ monitor_pc = "none"
    /\ main_pc = "start"
    /\ stream_state = "unconnected" /\ active = TRUE /\ loop_quit = FALSE
    /\ event_src = FALSE
    /\ disconnect_calls = 0 /\ deactivate_calls = 0 /\ stop_calls = 0
    /\ signalled = FALSE /\ last_op = "none"
    /\ MainParsed
    /\ NotInitialized

NextLife ==
    \/ MainNext
    \/ MonitorPoll
    \/ SignalHandler
    \/ Stop
    \/ StateChanged
    \/ StreamDestroyed

SpecLife == InitLife /\ [][NextLife]_vars

\* The main thread and the monitor thread keep running; signals, stop() calls
\* and the transport's reports may or may not come.
SpecLifeFair ==
    /\ InitLife
    /\ [][NextLife]_vars
    /\ WF_vars(MainNext)
    /\ WF_vars(MonitorPoll)

(***************************************************************************)
(* main() from its entry: the arguments are parsed, then the detector is   *)
(* constructed, initialised, run and destroyed.                            *)
(***************************************************************************)
\* The characters of the decimal numerals written digit by digit.
Digits(seq) == [i \in DOMAIN seq |-> DigitChars[seq[i] + 1]]

\* The decimal numeral of n, without leading zeros.
RECURSIVE Decimal(_)
Decimal(n) ==
    IF n < 10 THEN <<DigitChars[n + 1]>>
              ELSE Append(Decimal(n \div 10), DigitChars[(n % 10) + 1])

\* The command lines main() is started with.
MainArgv ==
    { <<ProgName>>,
      <<ProgName, Decimal(128)>>,
      <<ProgName, Decimal(63)>>,
      <<ProgName, OptPitch, <<"x">>>>,
      <<ProgName, OptPitch>>,
      <<ProgName, OptNoLog>>,
      <<ProgName, OptHelp>>,
      <<ProgName, Decimal(256), OptH>>,
      <<ProgName, <<"x">>, OptHelp>> }

\* The process at the entry of main().
InitMain ==
    /\ QueueInit
    /\ RtInit
    /\ quit = FALSE /\ stopping = FALSE /\ instance = FALSE
    /\ main_loop = "null" /\ stream = "null"
    /\ stop_requested = FALSE /\ monitor_pc = "none"
    /\ main_pc = "entry"
    /\ stream_state = "unconnected" /\ active = TRUE /\ loop_quit = FALSE
    /\ event_src = FALSE
    /\ disconnect_calls = 0 /\ deactivate_calls = 0 /\ stop_calls = 0
    /\ signalled = FALSE /\ last_op = "none"
    /\ argv \in MainArgv
    /\ parsed = NotParsed
    /\ exit_code = NoExit
    /\ NotInitialized

\* A signal is handled by signalHandler once main() has registered it
\* (main.cpp:178-179).
MainSignal == main_pc \notin {"entry", "exited"} /\ SignalHandler

NextMain ==
    \/ MainParse
    \/ MainNext
    \/ RunThrows
    \/ MonitorPoll
    \/ MainSignal
    \/ Stop
    \/ StateChanged
    \/ StreamDestroyed

SpecMain == InitMain /\ [][NextMain]_vars

(***************************************************************************)
(* parseArgs applied to a family of command lines.                         *)
(***************************************************************************)
\* Values around the bounds of the accepted range and beyond it.
SizeValues ==
    (0 .. 12) \cup (60 .. 68) \cup {99, 100, 512, 1024, 4096}
        \cup (8188 .. 8196) \cup {9999, 10000, 65536, 99999}

\* Numerals at and beyond the largest std::uint32_t: 2^32 - 1, 2^32,
\* 2^32 + 64, 2^32 + 512, 2^32 + 8192, 2^33 + 64, 10 * 2^32 and longer ones.
BigNumerals ==
    { Digits(<<4, 2, 9, 4, 9, 6, 7, 2, 9, 5>>),
      Digits(<<4, 2, 9, 4, 9, 6, 7, 2, 9, 6>>),
      Digits(<<4, 2, 9, 4, 9, 6, 7, 3, 6, 0>>),
      Digits(<<4, 2, 9, 4, 9, 6, 7, 8, 0, 8>>),
      Digits(<<4, 2, 9, 4, 9, 7, 5, 4, 8, 8>>),
      Digits(<<8, 5, 8, 9, 9, 3, 4, 6, 5, 6>>),
      Digits(<<4, 2, 9, 4, 9, 6, 7, 2, 9, 6, 0>>),
      Digits(<<9, 9, 9, 9, 9, 9, 9, 9, 9, 9, 9, 9, 9, 9>>) }

\* Numerals with leading zeros.
PaddedNumerals ==
    { Digits(<<0>>) \o Decimal(n) : n \in {0, 63, 64, 8192, 8193} }
        \cup { Digits(<<0, 0, 0, 0, 0, 0, 0, 0, 0, 0, 0, 0>>) \o Decimal(n) : n \in {64, 65536} }

\* Arguments that are no numerals.
NonNumerals ==
    { <<>>, <<"x">>, <<"6", "4", "x">>, <<"x", "6", "4">>, <<"+", "6", "4">>,
      <<" ", "6", "4">>, <<"6", " ", "4">>, <<"6", "4", ".", "0">>,
      <<"-", "6", "4">>, <<"-">>, <<"-", "-">>, <<"0", "x", "4", "0">>,
      <<"-", "-", "b", "o", "g", "u", "s">> }

ValueArgs == {Decimal(n) : n \in SizeValues} \cup BigNumerals \cup PaddedNumerals
                 \cup NonNumerals

FlagArgs == {OptNoLog, OptNoStats, OptPitch, OptNoVisual}

ParseArgv ==
    { <<>>, <<ProgName>> }
        \cup { <<ProgName, a>> : a \in ValueArgs \cup FlagArgs \cup {OptHelp, OptH} }
        \cup { <<ProgName, f, a>> : f \in FlagArgs \cup {OptHelp}, a \in ValueArgs }
        \cup { <<ProgName, a, f>> : f \in FlagArgs \cup {OptH}, a \in ValueArgs }
        \cup { <<ProgName, a, b>> : a, b \in {Decimal(64), Decimal(8192), <<"x">>} }
        \cup { <<ProgName, f, g>> : f, g \in FlagArgs }

InitParse ==
    /\ QueueInit
    /\ RtInit
    /\ quit = FALSE /\ stopping = FALSE /\ instance = FALSE
    /\ main_loop = "null" /\ stream = "null"
    /\ stop_requested = FALSE /\ monitor_pc = "none"
    /\ main_pc = "entry"
    /\ stream_state = "unconnected" /\ active = TRUE /\ loop_quit = FALSE
    /\ event_src = FALSE
    /\ disconnect_calls = 0 /\ deactivate_calls = 0 /\ stop_calls = 0
    /\ signalled = FALSE /\ last_op = "none"
    /\ argv \in ParseArgv
    /\ parsed = NotParsed
    /\ exit_code = NoExit
    /\ NotInitialized

NextParse == MainParse

SpecParse == InitParse /\ [][NextParse]_vars

(***************************************************************************)
(* Initial states.                                                         *)
(***************************************************************************)
\* The detector once initialize() has succeeded, run() has entered the loop and
\* the transport has reported Streaming: the state in which the real-time
\* callback produces events.
StreamingDetector ==
    /\ quit = FALSE /\ stopping = FALSE /\ instance = TRUE
    /\ main_loop = "created" /\ stream = "owned"
    /\ stop_requested = FALSE /\ monitor_pc = "polling"
    /\ main_pc = "running"
    /\ stream_state = "streaming" /\ active = TRUE /\ loop_quit = FALSE
    /\ event_src = TRUE
    /\ disconnect_calls = 0 /\ deactivate_calls = 0 /\ stop_calls = 0
    /\ signalled = FALSE /\ last_op = "none"

LifeStreaming == StreamingDetector /\ MainParsed /\ InitSucceeded

InitQueue == QueueInit /\ RtInit /\ LifeStreaming

\* One producer and one consumer, interleaved at every atomic operation; the
\* producer begins MaxPush pushes.
QueueBegin == npush < MaxPush /\ P_LoadHead

NextQueue == QueueBegin \/ ProducerRest \/ ConsumerNext

SpecQueue == InitQueue /\ [][NextQueue]_vars

(***************************************************************************)
(* Push, then drain: the producer pushes some events while the consumer    *)
(* is not scheduled, then the consumer drains and the producer pushes no   *)
(* more.  The ring starts empty at any index, as after earlier traffic.    *)
(***************************************************************************)
InitSeq ==
    /\ \E i \in Slots : ev_head = i /\ ev_tail = i
    /\ events = [i \in Slots |-> 0]
    /\ wake = FALSE
    /\ ppc = "idle" /\ p_head = 0 /\ p_tail = 0 /\ writing = -1
    /\ cpc = "idle" /\ c_tail = 0 /\ c_head = 0
    /\ npush = 0 /\ delivered = <<>> /\ evicted = {} /\ psteps = 0
    /\ c_event = DefaultEvent /\ shown = <<>> /\ log_lines = <<>>
    /\ RtInit
    /\ LifeStreaming

\* The drain has begun: the wake of the pushes made has been dispatched.
DrainBegun == npush > 0 /\ ppc = "idle" /\ ~wake

SeqBegin == /\ cpc = "idle"
            /\ ~DrainBegun
            /\ npush < MaxPushSeq
            /\ P_LoadHead

SeqDrain == /\ ppc = "idle"
            /\ ConsumerNext

NextSeq == SeqBegin \/ ProducerRest \/ SeqDrain

SpecSeq == InitSeq /\ [][NextSeq]_vars

\* The pushes are over and the drain handler has returned.
SeqDrained == DrainBegun /\ cpc = "idle"

\* The last n of the events 1 .. k, in push order.
LastPushed(k, n) == [i \in 1 .. n |-> k - n + i]

(***************************************************************************)
(* The process callback on a streaming detector: the transport invokes it  *)
(* with buffers of every kind; a signal may set quit at any time.          *)
(***************************************************************************)
NextProcess ==
    \/ RT_Enter
    \/ RT_Inspect
    \/ RT_Block
    \/ RT_PushBegin
    \/ ProducerRest
    \/ RT_Pushed
    \/ RT_Release
    \/ SignalHandler

SpecProcess == InitQueue /\ [][NextProcess]_vars

(***************************************************************************)
(* The process callback within the whole lifecycle: the detector is        *)
(* constructed, initialised and run, a signal may come at any time, and    *)
(* the transport invokes the callback once the stream is streaming.        *)
(***************************************************************************)
NextRunProcess ==
    \/ MainNext
    \/ MonitorPoll
    \/ SignalHandler
    \/ StateChanged
    \/ RT_Enter
    \/ RT_Inspect
    \/ RT_Block
    \/ RT_PushBegin
    \/ ProducerRest
    \/ RT_Pushed
    \/ RT_Release

SpecRunProcess == InitLife /\ [][NextRunProcess]_vars

(***************************************************************************)
(* The process callback and the drain handler together, on a detector      *)
(* started with or without the log, the pitch detection and the bar.       *)
(***************************************************************************)
DrainArgv ==
    {<<ProgName>>, <<ProgName, OptNoLog, OptNoVisual>>}

\* Blocks of the buffer being analysed: one more than the ring has slots.
DrainBlocks == kEventCap + 1

\* The callback has dequeued a buffer of the given number of blocks, has taken
\* the lease on it and is about to analyse its first block.
CallbackAtFirstBlock(blocks) ==
    /\ total_beats = 0 /\ total_onsets = 0 /\ last_bpm = 0
    /\ bpm = BpmEmpty
    /\ rt_pc = "block"
    /\ lease = <<[stream |-> stream,
                  buffer |-> RtBuffer(TRUE, TRUE, TRUE,
                                      blocks * buffer_size * SizeofFloat,
                                      SizeofFloat)]>>
    /\ blocks_left = blocks
    /\ rt_calls = 1 /\ rt_path = "viewed" /\ dequeues = 1 /\ requeues = 0
    /\ rejections = <<>> /\ blocks_log = <<>> /\ payload = <<>> /\ bpm_hist = <<>>

\* The callback has dequeued a buffer of DrainBlocks blocks, has taken the
\* lease on it and is about to analyse its first block; the handler is idle.
InitDrain ==
    /\ QueueInit
    /\ StreamingDetector
    /\ argv \in DrainArgv
    /\ parsed = parseArgs(argv)
    /\ exit_code = NoExit
    /\ InitSucceeded
    /\ CallbackAtFirstBlock(DrainBlocks)

NextDrain ==
    \/ RT_Block
    \/ RT_PushBegin
    \/ ProducerRest
    \/ RT_Pushed
    \/ RT_Release
    \/ ConsumerNext

SpecDrain == InitDrain /\ [][NextDrain]_vars

\* The same with a buffer of as many blocks as the ring has slots, on a
\* detector started without arguments: the last push finds the ring full
\* when the handler has not drained.
TimingBlocks == kEventCap

InitTiming ==
    /\ QueueInit
    /\ LifeStreaming
    /\ CallbackAtFirstBlock(TimingBlocks)

SpecTiming == InitTiming /\ [][NextDrain]_vars

(***************************************************************************)
(* The BPM buffer on its own: beats are recorded one after the other.      *)
(***************************************************************************)
NextBpm == RT_BeatRecord

SpecBpm == InitQueue /\ [][NextBpm]_vars

(***************************************************************************)
(* Claims about the event queue.                                           *)
(***************************************************************************)
\* C1: under every interleaving of push steps and drain steps, the events
\* delivered to the consumer form a subsequence of the pushed sequence 1, 2, ...:
\* each delivered event was pushed, none is delivered twice and none is
\* delivered before an event pushed earlier.
C1_DeliveredIsSubsequence ==
    /\ \A i \in DOMAIN delivered : delivered[i] \in 1 .. npush
    /\ \A i, j \in DOMAIN delivered : i < j => delivered[i] < delivered[j]

\* C2: an event is lost only by eviction of the oldest unread entry by a push
\* that found the buffer full: the queue never turns empty (head = tail) while
\* a published event is neither delivered nor evicted.
C2_LostOnlyByEviction ==
    ev_head = ev_tail =>
        \A e \in 1 .. Published : e \in Range(delivered) \cup evicted

\* C3: starting empty, pushing k <= kEventCap events (k = kEventCap included)
\* with no concurrent drain and then draining yields exactly those k events in
\* push order.
C3_PushKThenDrain ==
    (SeqDrained /\ npush <= kEventCap) => delivered = LastPushed(npush, npush)

\* C3, amended: the same for k <= kEventCap - 1, the number of events the ring
\* holds before a push finds it full.
C3_PushKThenDrain_Amended ==
    (SeqDrained /\ npush <= kEventCap - 1) => delivered = LastPushed(npush, npush)

\* C3 witness: kEventCap - 1 events were pushed and then drained, all delivered.
C3_Witness ==
    SeqDrained /\ npush = kEventCap - 1 /\ Len(delivered) = kEventCap - 1

\* C4: starting empty, pushing kEventCap + m events (m > 0) with no concurrent
\* drain and then draining yields exactly the last kEventCap pushed events, in
\* push order.
C4_OverflowKeepsLastN ==
    (SeqDrained /\ npush > kEventCap) => delivered = LastPushed(npush, kEventCap)

\* C4, amended: it yields exactly the last kEventCap - 1 pushed events, in
\* push order, with no duplicates.
C4_OverflowKeepsLastN_Amended ==
    (SeqDrained /\ npush > kEventCap) => delivered = LastPushed(npush, kEventCap - 1)

\* C4 witness: more than kEventCap events were pushed, some were evicted, and the
\* drain has returned.
C4_Witness ==
    SeqDrained /\ npush > kEventCap /\ evicted # {} /\ delivered # <<>>

\* C5: a push completes in a bounded number of the producer's own steps
\* whatever the consumer does: while a push is in progress the producer's next
\* step is enabled (it waits for nothing), and the push has taken no more steps
\* than it has program points (it retries nothing).
C5_PushNeverWaits ==
    ppc # "idle" => (ENABLED ProducerNext /\ psteps <= Cardinality(ProducerPCs))

\* C5 witness: a push that found the buffer full has passed the full test and
\* goes on while the consumer is paused in the middle of a drain.
C5_Witness ==
    /\ ppc = "write_begin"
    /\ IsFull(p_head, p_tail)
    /\ cpc = "store_tail"

\* C6: every published event that no overflow evicted is eventually delivered;
\* so once the producer is idle, the drain handler has returned and no wake is
\* pending, no published event is left neither delivered nor evicted.
C6_NothingStrandedAtRest ==
    (ppc = "idle" /\ cpc = "idle" /\ ~wake) =>
        \A e \in 1 .. npush : e \in Range(delivered) \cup evicted

(***************************************************************************)
(* Claims about shutdown and the stream lifecycle.                         *)
(***************************************************************************)
\* C7: if the signal handler is invoked while a detector instance exists
\* (before initialize(), between initialize() and run(), or while the loop
\* runs), the monitor eventually observes quit and requests the loop's exit,
\* and run() eventually returns: main() does not stay in run() or before it.
C7_SignalLeadsToRunReturn ==
    signalled ~> (main_pc \in {"init_failed", "returned", "dtor_join", "destroyed"})

\* C8: pw_stream_disconnect is called only in reaction to a Paused
\* notification received while stopping was already set: never by stop()
\* itself, and never for a Paused notification received while stopping is false.
C8_DisconnectOnlyOnPausedWhileStopping ==
    [][disconnect_calls' # disconnect_calls =>
          (last_op' = "state_changed_paused" /\ stopping)]_vars

\* C8 witness: stop() was called, the transport then reported Paused and the
\* disconnect call was made.
C8_Witness ==
    disconnect_calls = 1 /\ last_op = "state_changed_paused" /\ stop_calls > 0

\* C9: whatever the stop() calls, signals and notifications, the disconnect
\* call is made exactly once per run: never more than once, and once by the time
\* run() has returned.
C9_DisconnectExactlyOnce ==
    /\ disconnect_calls <= 1
    /\ (main_pc = "returned" => disconnect_calls = 1)

\* C10: after stop() returns, in every state of the detector, quit is true,
\* stopping is true and deactivation of the stream has been requested; stop()
\* itself makes no disconnect call.
C10_StopSetsFlagsAndDeactivates ==
    [][stop_calls' # stop_calls =>
          /\ quit'
          /\ stopping'
          /\ deactivate_calls' = deactivate_calls + 1
          /\ ~active'
          /\ disconnect_calls' = disconnect_calls]_vars

\* C10, amended: after stop() returns quit is true; if the detector holds a
\* stream, stopping is true and deactivation of the stream has been requested;
\* if it holds none (before initialize(), after a failed connect, after the
\* stream was released), stopping is left as it was and nothing is requested;
\* stop() itself makes no disconnect call.
C10_StopSetsFlagsAndDeactivates_Amended ==
    [][stop_calls' # stop_calls =>
          /\ quit'
          /\ stream # "null" =>
                /\ stopping'
                /\ deactivate_calls' = deactivate_calls + 1
                /\ ~active'
          /\ stream = "null" => UNCHANGED <<stopping, deactivate_calls, active>>
          /\ disconnect_calls' = disconnect_calls]_vars

\* C10 witness: stop() has returned on a detector that holds no stream and has
\* set quit only.
C10_Witness ==
    last_op = "stop" /\ stream = "null" /\ quit /\ ~stopping /\ deactivate_calls = 0

\* C11: stop() is idempotent: a stop() call made right after a stop() call
\* leaves quit, stopping, the stream and its state, the activation, the pending
\* loop exit and the number of disconnect calls exactly as the first call left
\* them.
C11_StopIsIdempotent ==
    [][(stop_calls' # stop_calls /\ last_op = "stop") =>
          UNCHANGED <<quit, stopping, stream, stream_state, active, main_loop,
                      loop_quit, disconnect_calls, instance, main_pc,
                      monitor_pc, stop_requested, event_src>>]_vars

\* C11 witness: stop() has returned for the second time on a detector whose
\* stream is streaming; both flags are set and no disconnect call was made.
C11_Witness ==
    /\ last_op = "stop" /\ stop_calls = 2
    /\ stream_state = "streaming" /\ quit /\ stopping /\ ~active
    /\ disconnect_calls = 0

\* C12: quit and stopping only ever change from false to true: no step stores
\* false into a flag that is true.
C12_FlagsNeverReset ==
    [][(quit => quit') /\ (stopping => stopping')]_vars

\* C13: the signal handler changes no state other than quit: a step of the
\* handler leaves stopping, the stream, the main loop, the pending loop exit,
\* the monitor, the queue and every counter as they were; it sets quit when a
\* detector instance is registered and changes nothing when none is.
C13_SignalHandlerFrame ==
    [][last_op' = "signal" =>
          /\ UNCHANGED <<stopping, instance, main_loop, stream, stop_requested,
                         monitor_pc, main_pc, stream_state, active, loop_quit,
                         event_src, disconnect_calls, deactivate_calls, stop_calls>>
          /\ UNCHANGED qvars
          /\ instance => quit'
          /\ ~instance => UNCHANGED <<quit, signalled>>]_vars

\* C13 witness: the handler has run while the loop runs and a detector is
\* registered: quit is set, no loop exit is pending and stopping is clear.
C13_Witness ==
    /\ last_op = "signal" /\ signalled /\ quit
    /\ main_pc = "running" /\ ~loop_quit /\ ~stopping /\ active

\* C14: when the transport reports Error for a stream that is Connecting or
\* Streaming, the state_changed callback requests the loop's exit in the same
\* step; run() then returns and main() returns 0, never another code.
C14_ErrorEndsRunCleanly ==
    /\ [][last_op' = "state_changed_error" => (stream_state' = "error" /\ loop_quit')]_vars
    /\ (stream_state = "error") ~> (main_pc \in {"returned", "dtor_join", "destroyed"})
    /\ (stream_state = "error") ~> (exit_code = 0)
    /\ [](stream_state = "error" => exit_code \in {NoExit, 0})

\* C14 witness: the transport reported Error while the stream was Streaming,
\* run() has returned and main() has returned 0.
C14_Witness ==
    stream_state = "error" /\ main_pc = "destroyed" /\ exit_code = 0

(***************************************************************************)
(* Claims about main() and the command line.                               *)
(***************************************************************************)
\* C19: main() returns once; it returns 0 exactly when help was requested or
\* run() returned normally, and 1 exactly when the arguments are invalid,
\* initialize() failed or run() threw; run() is entered only from the state a
\* successful initialize() leaves, so never after a failed initialize().
C19_ExitCodes ==
    [][/\ exit_code' # exit_code =>
            /\ exit_code = NoExit
            /\ exit_code' \in {0, 1}
            /\ exit_code' = 0 <=> (parsed'.kind = "help" \/ main_pc = "returned")
            /\ exit_code' = 1 <=> \/ parsed'.kind = "invalid"
                                  \/ main_pc \in {"init_failed", "run_threw"}
       /\ last_op' \in {"run", "run_throw"} =>
            (main_pc = "initialized" /\ main_loop = "created" /\ stream = "owned")
       /\ main_pc = "init_failed" => main_pc' \in {"init_failed", "dtor_join"}]_vars

\* C19 witness: initialize() failed on a valid command line, run() was never
\* entered and main() has returned 1.
C19_Witness ==
    /\ exit_code = 1 /\ parsed.kind = "ok" /\ main_pc = "destroyed"
    /\ ~event_src /\ stream_state = "unconnected"

\* The arguments after the program name.
ArgIndices == 2 .. Len(argv)

RECURSIVE StripZeros(_)
StripZeros(s) == IF s # <<>> /\ s[1] = "0" THEN StripZeros(Tail(s)) ELSE s

\* The value of a numeral of at most four digits.
RECURSIVE NumeralValue(_)
NumeralValue(s) ==
    IF s = <<>> THEN 0
    ELSE (NumeralValue(SubSeq(s, 1, Len(s) - 1)) * 10) + DigitValue(s[Len(s)])

\* s is a string of decimal digits whose value lies in [64, 8192].
IsSizeNumeral(s) ==
    /\ s # <<>>
    /\ \A i \in DOMAIN s : IsDigit(s[i])
    /\ Len(StripZeros(s)) <= 4
    /\ NumeralValue(StripZeros(s)) >= 64
    /\ NumeralValue(StripZeros(s)) <= 8192

\* C20: on a command line without a help request, buffer_size is 512 when
\* every argument is a known flag; when exactly one argument is no known flag,
\* the parse succeeds with that argument's value as buffer_size if and only if
\* the argument is a string of decimal digits whose value lies in [64, 8192],
\* and is a configuration error otherwise (value below 64 or above 8192,
\* non-digit characters, or a value beyond 32 bits, which is not wrapped).
C20_BufferSizeAccepted ==
    (parsed.kind # "none" /\ \A i \in ArgIndices : argv[i] \notin {OptHelp, OptH}) =>
        LET values == {i \in ArgIndices : argv[i] \notin FlagArgs} IN
        /\ values = {} =>
              (parsed.kind = "ok" /\ parsed.options.buffer_size = 512)
        /\ \A i \in values :
              values = {i} =>
                 IF IsSizeNumeral(argv[i])
                   THEN /\ parsed.kind = "ok"
                        /\ parsed.options.buffer_size = NumeralValue(StripZeros(argv[i]))
                   ELSE parsed.kind = "invalid" /\ exit_code = 1

\* C20 witness: the argument 4294967360 (2^32 + 64, which a wrapping parse
\* would read as 64) was parsed and rejected as a configuration error.
C20_Witness ==
    /\ argv = <<ProgName, Digits(<<4, 2, 9, 4, 9, 6, 7, 3, 6, 0>>)>>
    /\ parsed.kind = "invalid"
    /\ exit_code = 1

(***************************************************************************)
(* Claims about the process callback and the BPM buffer.                   *)
(***************************************************************************)
RECURSIVE SumSeq(_)
SumSeq(q) == IF q = <<>> THEN 0 ELSE Head(q) + SumSeq(Tail(q))

\* The last k elements of q.
LastOf(q, k) == SubSeq(q, (Len(q) - k) + 1, Len(q))

\* C18: the rolling average is 0 when no value has been recorded and otherwise
\* the arithmetic mean of the min(n, 10) most recently recorded values after n
\* records; recording 60, 120, 90 into an empty buffer gives 90.
C18_AverageOfLastTen ==
    LET n == Len(bpm_hist)
        k == IF n < 10 THEN n ELSE 10
        avg == averageBpm(bpm)
    IN  /\ n = 0 => avg[1] = 0
        /\ n > 0 => (avg[2] > 0 /\ avg[1] * k = SumSeq(LastOf(bpm_hist, k)) * avg[2])
        /\ bpm_hist = <<60, 120, 90>> => avg[1] = 90 * avg[2]

\* C18 witness: 60 was recorded, then 120 ten times: the first value has left
\* the window and the average is 120.
C18_Witness ==
    /\ Len(bpm_hist) = 11
    /\ bpm_hist[1] = 60
    /\ \A i \in 2 .. 11 : bpm_hist[i] = 120
    /\ averageBpm(bpm) = <<1200, 10>>

\* C15: every buffer the callback dequeues is queued back exactly once before
\* the invocation returns, on every path: while an invocation holds a buffer
\* exactly one dequeued buffer is outstanding, and once it has returned none is.
C15_BufferRequeuedOnce ==
    /\ rt_pc = "idle" => (requeues = dequeues /\ lease = <<>>)
    /\ rt_pc # "idle" => (dequeues = requeues + 1 /\ lease # <<>>)

\* C15 witness: two invocations have dequeued a buffer and returned, the
\* second one with a buffer that failed the layout validation; both buffers
\* were queued back.
C15_Witness ==
    /\ rt_pc = "idle" /\ rt_path = "rejected"
    /\ dequeues = 2 /\ requeues = 2 /\ Len(rejections) = 1

\* C16: an invocation whose buffer fails the layout validation analyses no
\* block, leaves total_beats, total_onsets, the BPM buffer and the event queue
\* as they were and requests no loop exit; and a well-formed buffer is viewed
\* and analysed whatever was rejected before it.
C16_RejectedBufferSkipped ==
    [][/\ rt_path' = "rejected" =>
            /\ UNCHANGED <<total_beats, total_onsets, last_bpm, bpm, bpm_hist,
                           blocks_log, payload>>
            /\ UNCHANGED <<events, ev_head, ev_tail, npush, wake, ppc>>
            /\ UNCHANGED <<loop_quit, stopping, stream_state, main_pc>>
       /\ (rt_pc = "leased" /\ rt_pc' # "leased") =>
            LET buffer == lease[1].buffer IN
            (/\ buffer.inner /\ buffer.data /\ buffer.chunk
             /\ buffer.size > 0 /\ buffer.size % 4 = 0 /\ buffer.stride = 4) =>
                (/\ rt_path' = "viewed"
                 /\ blocks_left' = (buffer.size \div 4) \div buffer_size
                 /\ rejections' = rejections)]_vars

\* C16 witness: a buffer was rejected, and the next invocation has analysed a
\* block of a well-formed buffer.
C16_Witness ==
    /\ Len(rejections) = 1 /\ rt_calls = 2 /\ rt_path = "viewed"
    /\ Len(blocks_log) = 1 /\ rt_pc = "idle"

PositiveBlock(result) == result.is_beat \/ result.is_onset

\* C17: exactly one Event is pushed per analysed block that is a beat or an
\* onset and none for the others; the Event of the n-th such block carries that
\* block's two detection results; so every Event in the queue has is_beat or
\* is_onset true.
C17_OneEventPerPositiveBlock ==
    LET positives == SelectSeq(blocks_log, PositiveBlock) IN
    /\ Len(payload) = Len(positives)
    /\ \A n \in DOMAIN payload :
          /\ payload[n].is_beat = positives[n].is_beat
          /\ payload[n].is_onset = positives[n].is_onset
    /\ npush <= Len(payload) /\ Len(payload) <= npush + 1
    /\ rt_pc # "push" => (npush = Len(payload) /\ ppc = "idle")
    /\ \A i \in Slots :
          events[i] # 0 =>
             /\ events[i] \in DOMAIN payload
             /\ payload[events[i]].is_beat \/ payload[events[i]].is_onset

\* C17 witness: a buffer of two blocks was analysed, the first block neither
\* beat nor onset and the second both; one Event was pushed and is in the queue.
C17_Witness ==
    /\ rt_pc = "idle" /\ Len(blocks_log) = 2
    /\ ~PositiveBlock(blocks_log[1])
    /\ blocks_log[2].is_beat /\ blocks_log[2].is_onset
    /\ npush = 1 /\ events[0] = 1 /\ ev_head = 1

(***************************************************************************)
(* Claims about the drain handler and the ownership of the shared state.   *)
(***************************************************************************)
\* C21: with the log enabled, the handler writes one log record for every
\* event it has copied out of the queue, in the order of the copies: the
\* record's BPM is the event's bpm for a beat and 0 otherwise, its onset field
\* is 1 for an onset and 0 otherwise, and its pitch is 0 when pitch detection
\* is disabled.
C21_OneLogRecordPerEvent ==
    [][(cpc = "report" /\ cpc' # "report" /\ log_enabled) =>
          log_lines' = Append(log_lines,
                              [bpm |-> IF c_event.is_beat THEN c_event.bpm ELSE 0,
                               onset |-> IF c_event.is_onset THEN 1 ELSE 0,
                               pitch |-> IF pitch_enabled THEN c_event.pitch_hz ELSE 0])]_vars

\* C22: ev_head is stored only by the producer and ev_tail only by the
\* consumer: a step that changes ev_head is a step of the push, and a step that
\* changes ev_tail is a step of the drain handler.
C22_IndexOwnership ==
    [][/\ (ev_head' # ev_head => (ppc' # ppc /\ cpc' = cpc))
       /\ (ev_tail' # ev_tail => (cpc' # cpc /\ ppc' = ppc))]_vars

\* C23: the slot at the write index is assigned in full before the new head
\* is stored; the consumer copies a slot only at a tail that differs from the
\* head it loaded; and the slot it copies holds an event that a head store has
\* published, whatever the copy yields.
C23_ReadsOnlyPublished ==
    /\ ppc = "store_head" => (writing = -1 /\ events[p_head] = npush)
    /\ cpc = "read" => c_tail # c_head
    /\ cpc = "read" => \A e \in SlotCopies(c_tail) : e \in 1 .. Published

\* C24: from the moment the consumer has chosen a slot (it loaded tail and a
\* head that differs from it) until it has finished its copy, the producer's
\* assignment of an Event is never in progress on that slot.
C24_NoOverwriteWhileReading == cpc = "read" => writing # c_tail

\* C25: the BPM buffer is written by the drain handler only (a step that
\* changes it is a step of the handler and not of the process callback), and
\* the handler is never about to compute the average while the callback is
\* about to record a value.
C25_BpmBufferConsumerOnly ==
    [][/\ bpm' # bpm => (cpc' # cpc /\ rt_pc' = rt_pc)
       /\ ~(/\ cpc = "report" /\ c_event.is_beat /\ visual_enabled
            /\ rt_pc = "block")]_vars

(***************************************************************************)
(* Claims about teardown and the terminal states of the stream.            *)
(***************************************************************************)
\* C26: once the monitor's stop token is requested the monitor ends, whether
\* or not quit is set, in the iteration that sees the token; the join of the
\* destructor then completes and the detector is destroyed.
C26_MonitorStopsOnRequest ==
    /\ (stop_requested /\ monitor_pc = "polling") ~> (monitor_pc = "done")
    /\ (main_pc = "dtor_join") ~> (main_pc = "destroyed")
    /\ [][(monitor_pc = "polling" /\ stop_requested /\ last_op' = "monitor")
             => monitor_pc' = "done"]_vars

\* C26 witness: the transport reported Error, run() returned, and the
\* detector was destroyed with the monitor joined although quit was never set.
C26_Witness ==
    /\ main_pc = "destroyed" /\ monitor_pc = "done"
    /\ stream_state = "error" /\ ~quit /\ ~signalled

C28_CallbackOnlyReadsFlags ==
    [][(rt_calls' # rt_calls \/ rt_pc' # rt_pc \/ ppc' # ppc) =>
          /\ UNCHANGED <<quit, stopping, loop_quit, stop_requested>>
          /\ UNCHANGED <<stream, stream_state, active, main_loop, main_pc>>
          /\ UNCHANGED <<disconnect_calls, deactivate_calls, stop_calls>>
          /\ dequeues' \in {dequeues, dequeues + 1}
          /\ requeues' \in {requeues, requeues + 1}]_vars

\* C28 witness: the callback has dequeued, analysed and requeued one buffer;
\* then a signal set quit and the next invocation returned at once.
C28_Witness ==
    /\ rt_calls = 2 /\ rt_path = "quit" /\ rt_pc = "idle"
    /\ quit /\ ~stopping /\ ~loop_quit
    /\ dequeues = 1 /\ requeues = 1 /\ Len(blocks_log) > 0

\* The four layout defects of a buffer: no data pointer, no bytes, a size that
\* is no multiple of the sample size, a stride other than the sample size.
LayoutDefects(buffer) ==
    {d \in {"null_data", "zero_length", "misaligned", "stride"} :
        \/ d = "null_data" /\ ~(buffer.inner /\ buffer.data)
        \/ d = "zero_length" /\ buffer.size = 0
        \/ d = "misaligned" /\ buffer.size % SizeofFloat # 0
        \/ d = "stride" /\ buffer.stride # SizeofFloat}

\* C29: when the callback inspects a buffer that has one of the four layout
\* defects, it rejects the buffer (no block of it is analysed) and prints the
\* reason of the rejection.
C29_DefectsRejectedAndLogged ==
    [][(rt_pc = "leased" /\ rt_pc' # "leased" /\ LayoutDefects(lease[1].buffer) # {}) =>
          /\ rt_pc' = "release"
          /\ rt_path' # "viewed"
          /\ Len(rejections') = Len(rejections) + 1]_vars

\* C30: the BPM buffer always has count <= 10 and head < 10; after n records
\* count = min(n, 10) and head = n mod 10; and the count entries that start at
\* (head - count) mod 10, where averageBpm starts too, are the min(n, 10) most
\* recently recorded values in the order of their recording.
C30_BpmWindow ==
    LET n == Len(bpm_hist)
        first == (bpm.head - bpm.count) % kBPMCapacity
        window == [i \in 1 .. bpm.count |-> bpm.values[(first + (i - 1)) % kBPMCapacity]]
    IN  /\ bpm.count \in 0 .. kBPMCapacity
        /\ bpm.head \in 0 .. (kBPMCapacity - 1)
        /\ bpm.count = Min(n, kBPMCapacity)
        /\ bpm.head = n % kBPMCapacity
        /\ BpmFirstIndex(bpm) = first
        /\ window = LastOf(bpm_hist, Min(n, kBPMCapacity))

\* C30 witness: eleven values were recorded, the last unlike the first: the
\* buffer is full, head has wrapped to 1 and slot 0 holds the newest value.
C30_Witness ==
    /\ Len(bpm_hist) = kBPMCapacity + 1
    /\ bpm.count = kBPMCapacity /\ bpm.head = 1
    /\ bpm_hist[1] # bpm_hist[kBPMCapacity + 1]
    /\ bpm.values[0] = bpm_hist[kBPMCapacity + 1]

(***************************************************************************)
(* Claims about the run totals, initialize() and teardown.                 *)
(***************************************************************************)
IsBeat(result) == result.is_beat

IsOnset(result) == result.is_onset

StepNamed(message) ==
    CASE message = "failed to open log file" -> "log"
      [] message = "failed to create main loop" -> "main_loop"
      [] message = "failed to create aubio tempo" -> "tempo"
      [] message = "failed to create aubio buffers" -> "buffers"
      [] message = "failed to create aubio onset" -> "onset"
      [] message = "failed to create aubio pitch" -> "pitch"
      [] message = "failed to  create stream" -> "stream"
      [] message = "failed to connect to stream" -> "connect"
      [] OTHER -> "none"

\* s is an initial part of t.
IsPrefix(s, t) == Len(s) <= Len(t) /\ s = SubSeq(t, 1, Len(s))

\* C32: initialize() stops at its first failing step, returns the error that
\* names that step and attempts no later step and no step twice.  After a
\* failure before the connect the stream is never connected, after any failure
\* the drain event source is not registered, and a failed connect leaves the
\* stream handle empty.
C32_InitializeStopsAtFirstFailure ==
    /\ [][main_pc = "constructed" /\ main_pc' # "constructed" =>
            /\ IsPrefix(init_steps', InitSteps(parsed.options))
            /\ init_steps' # <<>>
            /\ IF init_error' = NoError
                 THEN /\ init_steps' = InitSteps(parsed.options)
                      /\ main_pc' = "initialized"
                 ELSE /\ StepNamed(init_error') = init_steps'[Len(init_steps')]
                      /\ "event_src" \notin Range(init_steps')
                      /\ main_pc' = "init_failed"
                      /\ ~event_src'
                      /\ stream' = "null"
                      /\ "connect" \notin Range(init_steps') =>
                            stream_state' = "unconnected" /\ stream_destroys' = 0]_vars
    /\ [][init_steps # <<>> =>
            init_steps' = init_steps /\ init_error' = init_error]_vars
    /\ [](init_error # NoError =>
            /\ ~event_src
            /\ stream = "null"
            /\ stream_state = "unconnected"
            /\ disconnect_calls = 0)

\* initialize() with pitch detection enabled failed at the connect, and the
\* detector was destroyed afterwards.
C32_Witness ==
    /\ init_error = "failed to connect to stream"
    /\ init_steps = <<"log", "main_loop", "tempo", "buffers", "onset", "pitch",
                      "stream", "connect">>
    /\ stream = "null" /\ ~event_src
    /\ main_pc = "destroyed"


\* C33: after a stop() call made while the stream is Streaming, the loop-exit
\* request that follows from quit never pre-empts the pause-then-disconnect
\* sequence: pw_main_loop_run does not return while stopping is set and the
\* stream is still Streaming, that is before Paused was dispatched and the
\* disconnect call made.
C33_LoopExitNeverPreemptsDisconnect ==
    [][(main_pc = "running" /\ main_pc' = "returned") =>
          ~(stopping /\ stream_state = "streaming" /\ disconnect_calls = 0)]_vars


\* The members of DetectorState that own the main loop, the stream and the
\* analysis objects, in the order of their declaration (impl.cpp:68-76).
MemberOrder == <<"main_loop", "stream", "tempo", "input_vector", "output_vector",
                 "onset", "pitch", "pitch_buffer">>

\* The objects the process callback uses besides the stream.
AnalysisObjects == {"tempo", "input_vector", "output_vector", "onset", "pitch",
                    "pitch_buffer"}

\* ~DetectorState destroys the members in the reverse order of declaration.
DestroyedBefore(a, b) == StepIndex(MemberOrder, a) > StepIndex(MemberOrder, b)

\* The transport can start an invocation of the process callback, or one is
\* executing: the controller holds the stream and it is Streaming.
CallbackCanRun == stream = "owned" /\ stream_state = "streaming"

\* C34: on every shutdown path the stream is paused or disconnected before any
\* object the callback uses is released: when the destructor releases the
\* members, no analysis object is released ahead of a stream on which the
\* callback can still run.
C34_NoReleaseUnderCallback ==
    [][(main_pc = "dtor_join" /\ main_pc' = "destroyed") =>
          \A object \in AnalysisObjects :
             DestroyedBefore(object, "stream") => ~CallbackCanRun]_vars


\* C35: the stream object is destroyed at most once on every path: a step that
\* destroys it, by the transport or by the controller (failed connect,
\* teardown), destroys it once and leaves the controller without a handle, so
\* that no later step destroys it again.
C35_StreamDestroyedAtMostOnce ==
    /\ [](stream_destroys <= 1)
    /\ [][stream_destroys' # stream_destroys =>
            /\ stream_destroys' = stream_destroys + 1
            /\ stream' = "null"]_vars
    /\ [](main_pc = "destroyed" => stream = "null")

\* The transport destroyed the stream of a running detector, the controller
\* dropped its handle, and the detector was destroyed afterwards.
C35_Witness ==
    /\ main_pc = "destroyed"
    /\ init_error = NoError
    /\ stream_state = "unconnected" /\ disconnect_calls = 0
    /\ stream_destroys = 1


\* The monitor's next poll observes quit and reads the main-loop handle.
MonitorReadsLoop == monitor_pc = "polling" /\ quit

\* The main thread's next step is initialize(), which assigns the main-loop
\* handle (impl.cpp:298).
InitializeAssignsLoop == main_pc = "constructed"

\* C36: a monitor step that requests the event-loop exit is the monitor's last
\* step and acts on a main loop that exists; the monitor has ended before the
\* main loop is destroyed; and the monitor's read of the main-loop handle is
\* never pending together with initialize()'s assignment of it.
C36_MonitorUsesLiveLoop ==
    /\ [][(last_op' = "monitor" /\ loop_quit' /\ ~loop_quit) =>
            /\ main_loop = "created"
            /\ main_pc \notin {"destroyed"}
            /\ monitor_pc' = "done"]_vars
    /\ [][monitor_pc = "done" => monitor_pc' = "done"]_vars
    /\ [](main_pc = "destroyed" => monitor_pc = "done")
    /\ [](~(MonitorReadsLoop /\ InitializeAssignsLoop))


\* C37: once quit has been set, every later invocation of the process
\* callback returns at its entry: it dequeues no buffer, analyses nothing,
\* leaves the totals and the BPM window as they are, and pushes no event.
C37_NoWorkAfterQuit ==
    [][(rt_calls' # rt_calls /\ signalled) =>
          /\ rt_path' = "quit"
          /\ rt_pc' = "idle"
          /\ UNCHANGED <<dequeues, lease, blocks_log, total_beats, total_onsets, bpm,
                         npush, ev_head, wake>>]_vars


\* C38: for a valid buffer of s samples and the block size b, the callback
\* analyses exactly floor(s / b) blocks, the i-th of them the b samples from
\* offset (i - 1) * b, whatever the buffers before it were: the trailing
\* s mod b samples are in no block and are not carried over, and a buffer with
\* s < b gives no analysis and no event.  An event comes only with an analysis.
C38_WholeBlocksOnly ==
    /\ [][(rt_pc = "release" /\ rt_pc' = "idle" /\ rt_path = "viewed") =>
            LET s == lease[1].buffer.size \div SizeofFloat
                b == buffer_size
                mine == SelectSeq(blocks_log, OfThisCall)
            IN  /\ Len(mine) = s \div b
                /\ \A i \in DOMAIN mine :
                      /\ mine[i].offset = (i - 1) * b
                      /\ mine[i].length = b
                      /\ mine[i].offset + mine[i].length <= s - (s % b)
                /\ s < b => mine = <<>>]_vars
    /\ [][Len(payload') > Len(payload) =>
            /\ Len(blocks_log') = Len(blocks_log) + 1
            /\ blocks_log'[Len(blocks_log')].call = rt_calls]_vars

\* The second invocation has returned: it was handed a buffer of two blocks
\* and one sample and analysed two blocks, after a first invocation whose
\* buffer of half a block gave no analysis.
C38_Witness ==
    /\ rt_calls = 2 /\ rt_pc = "idle" /\ rt_path = "viewed"
    /\ dequeues = 2 /\ requeues = 2
    /\ Len(blocks_log) = 2
    /\ blocks_log[1].call = 2 /\ blocks_log[1].offset = 0
    /\ blocks_log[2].call = 2 /\ blocks_log[2].offset = buffer_size


====
